---------------------------- MODULE Spec2Model ----------------------------
(***************************************************************************)
(* Traffic micro-simulation of the historic centre of Cusco: the traffic   *)
(* lights (src/src/semaforo.py), the vehicle agent (src/src/vehiculo.py),  *)
(* the spawner and tick driver (src/src/simulacion.py) and the narrator    *)
(* and console logger they notify.                                         *)
(*                                                                         *)
(* Representation of the program's floating point quantities:              *)
(*   - lengths and coordinates are integers in hundredths of a map unit    *)
(*     (U = 100), speeds in hundredths of a unit per frame;                *)
(*   - wall-clock time (time.time()) is the integer variable now, in       *)
(*     seconds; it advances by the action PasaTiempo between operations;   *)
(*   - the simulated hour is an integer in thousandths of an hour;         *)
(*   - an angle is an integer in units of 7.5 degrees (Pi = 24): an even   *)
(*     value 2k is exactly k*15 degrees, an odd value 2k+1 is an angle     *)
(*     strictly between k*15 and (k+1)*15 degrees.  Street headings of the *)
(*     model's maps are multiples of 90 degrees, so every comparison with  *)
(*     pi/3 and pi/4 the code makes is decided exactly.                    *)
(*                                                                         *)
(* A value that a method computes once and uses several times is bound by  *)
(* a quantifier over a singleton set,                                      *)
(*     CHOOSE r \in { body : x \in {value} } : TRUE,                       *)
(* which is body with x standing for the value.                            *)
(***************************************************************************)
EXTENDS Integers, Sequences, FiniteSets, TLC

VARIABLES
    now,                      \* time.time()
    config,                   \* ConfiguracionSimulacion
    mapa,                     \* what GeneradorMapaCusco hands to __init__
    semaforos,                \* SimulacionTrafico.semaforos
    vehiculos,                \* SimulacionTrafico.vehiculos
    estadisticas,             \* SimulacionTrafico.estadisticas
    hora_simulada,            \* SimulacionTrafico.hora_simulada
    vehiculos_generados,      \* SimulacionTrafico.vehiculos_generados
    tiempo_ultima_generacion, \* SimulacionTrafico.tiempo_ultima_generacion
    max_vehiculos_simultaneos,\* SimulacionTrafico.max_vehiculos_simultaneos
    ejecutando,               \* SimulacionTrafico.ejecutando
    pausado,                  \* SimulacionTrafico.pausado
    narrador,                 \* NarradorSistema (or Ninguno)
    console_logger,           \* ConsoleLogger (or Ninguno)
    error,                    \* exception that left the running code ("" = none)
    eventos,                  \* notifications delivered by the last operation
    ultimo,                   \* the last operation and what it returned
    fase,                     \* where the program is: "nuevo" before __init__,
                              \* "listo" after it, "bucle" in the main loop,
                              \* "terminado" after it; "prueba" when a light
                              \* or a vehicle is exercised alone
    sig_oid,                  \* next Python object identity for a Vehiculo
    ticks,                    \* main-loop iterations completed so far
    teclas,                   \* input events and commands handled so far
    hilo_reporte,             \* the thread of _iniciar_hilo_reportes: where it
                              \* is and the values it has read
    completados               \* what a reader would have seen at the end of
                              \* each tick completed so far

vars == << now, config, mapa, semaforos, vehiculos, estadisticas,
           hora_simulada, vehiculos_generados, tiempo_ultima_generacion,
           max_vehiculos_simultaneos, ejecutando, pausado, narrador,
           console_logger, error, eventos, ultimo, fase, sig_oid, ticks,
           teclas, hilo_reporte, completados >>

\* SimulacionTrafico.calles
calles == mapa.calles

-----------------------------------------------------------------------------
(* Bounds of the model *)

\* seconds a vehicle is followed for along its route: two notifications of a
\* change of street need more than 5 seconds each
MaxTimeRuta == 12

\* the largest reading of the clock of the lights that cycle for ever; a
\* reading beyond it is counted from a later origin
MaxTimeCiclo == 20

\* iterations of the main loop of a journey in which a stop may be drawn
MaxTicksViaje == 8

\* iterations of the main loop of an encounter in which a vehicle may be
\* spawned and the clock may advance
MaxTicksEncuentro == 3
\* length of the two lanes of the encounter
LargoCarril == 60

\* seconds of wall-clock time the driver is followed for
MaxTime == 5
\* iterations of the main loop
MaxTicks == 7
\* input events and commands handled
MaxTeclas == 1
\* spawn attempts are made while at most this many vehicles were created
MaxGenerados == 2
\* seconds a light alone is followed for (a full cycle of the longest draws)
MaxTimeSemaforo == 30
\* calls of forzar_estado and ajustar_ciclo on a light alone
MaxLlamadasSemaforo == 1
\* updates of a vehicle alone
MaxPasos == 2
\* seconds the main loop and the thread of the reports are followed for: the
\* thread reports after 15
MaxTimeReportes == 15
\* ticks of the main loop while the thread of the reports is followed
MaxTicksReportes == 2

-----------------------------------------------------------------------------
(* Units and numeric helpers *)

U == 100

Pi == 24

\* Python's None
Ninguno == [ninguno |-> TRUE]

Abs(n) == IF n < 0 THEN -n ELSE n

Min(a, b) == IF a < b THEN a ELSE b

Max(a, b) == IF a > b THEN a ELSE b

\* Punto.distancia_a, squared (the code compares the root with a constant)
Distancia2(p, q) == (p.x - q.x) * (p.x - q.x) + (p.y - q.y) * (p.y - q.y)

\* angle of the first-quadrant vector (p, q), p > 0, q > 0, in 0..Pi/2:
\* tan 15 = 2 - sqrt 3, tan 30 = 1/sqrt 3, tan 60 = sqrt 3, tan 75 = 2 + sqrt 3
AnguloCuadrante(p, q) ==
    IF q = p THEN 6
    ELSE IF q < p
         THEN IF 3 * q * q > p * p THEN 5
              ELSE IF 3 * p * p < (2 * p - q) * (2 * p - q) THEN 1 ELSE 3
         ELSE IF q * q < 3 * p * p THEN 7
              ELSE IF 3 * q * q < (2 * q - p) * (2 * q - p) THEN 11 ELSE 9

\* math.atan2(dy, dx), in (-Pi, Pi]
Atan2(dy, dx) ==
    IF dy = 0 THEN (IF dx >= 0 THEN 0 ELSE Pi)
    ELSE IF dx = 0 THEN (IF dy > 0 THEN Pi \div 2 ELSE -(Pi \div 2))
    ELSE LET a == AnguloCuadrante(Abs(dx), Abs(dy))
         IN  IF dx > 0 THEN (IF dy > 0 THEN a ELSE -a)
             ELSE (IF dy > 0 THEN Pi - a ELSE a - Pi)

\* math.cos and math.sin of a heading that is a multiple of 90 degrees
Cos(a) == IF a = 0 THEN 1 ELSE IF a = Pi THEN -1 ELSE 0

Sin(a) == IF a = Pi \div 2 THEN 1 ELSE IF a = -(Pi \div 2) THEN -1 ELSE 0

-----------------------------------------------------------------------------
(* NarradorSistema (src/src/narrador.py) *)

\* NarradorSistema.__init__ at time t
NarradorNuevo(t) ==
    [ activo |-> TRUE, tiempo_ultimo_mensaje |-> t, mensajes |-> 0,
      explicaciones_mostradas |-> {}, contador_eventos |-> 0,
      explicaciones_tecnicas |-> 8 ]

\* NarradorSistema.agregar_mensaje(mensaje, tipo) at time t; mensajes is the
\* length of the message list, kept to the last 10
agregar_mensaje(n, t) ==
    IF ~n.activo THEN n
    ELSE IF t - n.tiempo_ultimo_mensaje < 2 THEN n
    ELSE [n EXCEPT !.mensajes = Min(n.mensajes + 1, 10),
                   !.tiempo_ultimo_mensaje = t,
                   !.contador_eventos = n.contador_eventos + 1]

\* the keys of the dictionary explicaciones of explicar_evento_vehiculo
EventosExplicados ==
    { "NUEVO", "DETENIDO", "ACELERANDO", "FRENANDO", "CAMBIO DE VIA",
      "RUTA COMPLETADA", "PARADA DE PASAJEROS" }

\* NarradorSistema.explicar_evento_vehiculo: evento is the whole text the
\* vehicle logged, "NUEVO AUTO", "RUTA COMPLETADA (...)", "FRENANDO (...)",
\* which the code looks up as it is
explicar_evento_vehiculo(n, evento, t) ==
    IF evento \in EventosExplicados THEN agregar_mensaje(n, t) ELSE n

\* NarradorSistema.explicacion_tecnica_periodica
explicacion_tecnica_periodica(n, t) ==
    IF n.contador_eventos % 50 = 0 /\ n.explicaciones_tecnicas > 0
    THEN agregar_mensaje(
             [n EXCEPT !.explicaciones_tecnicas = n.explicaciones_tecnicas - 1], t)
    ELSE n

\* NarradorSistema.explicar_semaforo(estado)
explicar_semaforo(n, estado, t) ==
    IF estado \in {"ROJO", "VERDE", "AMARILLO"}
       /\ ("semaforo_" \o estado) \notin n.explicaciones_mostradas
    THEN [agregar_mensaje(n, t) EXCEPT
             !.explicaciones_mostradas = @ \cup {"semaforo_" \o estado}]
    ELSE n

\* NarradorSistema.analizar_congestion(nivel), nivel in percent
analizar_congestion(n, nivel, t) ==
    IF nivel > 80 /\ "congestion_critica" \notin n.explicaciones_mostradas
    THEN [agregar_mensaje(n, t) EXCEPT
             !.explicaciones_mostradas = @ \cup {"congestion_critica"}]
    ELSE IF nivel < 30 /\ "flujo_optimo" \notin n.explicaciones_mostradas
    THEN [agregar_mensaje(n, t) EXCEPT
             !.explicaciones_mostradas = @ \cup {"flujo_optimo"}]
    ELSE n

\* NarradorSistema.alternar_activacion
alternar_activacion(n, t) ==
    LET m == [n EXCEPT !.activo = ~n.activo]
    IN  IF m.activo THEN agregar_mensaje(m, t) ELSE m

\* NarradorSistema.reset_explicaciones
reset_explicaciones(n) ==
    [n EXCEPT !.explicaciones_mostradas = {}, !.explicaciones_tecnicas = 8,
              !.contador_eventos = 0]

-----------------------------------------------------------------------------
(* ConsoleLogger (src/utils/console_logger.py) *)

\* ConsoleLogger.__init__ at time t
ConsoleLoggerNuevo(t) ==
    [ ultimo_reporte |-> t, alertas_activas |-> {}, estadisticas_historial |-> 0 ]

\* the narrator after ConsoleLogger.log_evento_vehiculo(evento, id, posicion)
log_evento_vehiculo(n, evento, t) ==
    explicacion_tecnica_periodica(explicar_evento_vehiculo(n, evento, t), t)

\* the narrator after ConsoleLogger.log_cambio_semaforo(posicion, estado_nuevo)
log_cambio_semaforo(n, estado_nuevo, t) == explicar_semaforo(n, estado_nuevo, t)

-----------------------------------------------------------------------------
(* Semaforo (src/src/semaforo.py) *)

Estados == {"VERDE", "AMARILLO", "ROJO"}

\* Semaforo.__init__ and _configurar_tiempos at time t; verde, rojo and
\* primero are the values drawn by random.uniform
SemaforoNuevo(posicion, tipo, con_logger, t, verde, rojo, primero) ==
    [ posicion |-> posicion, estado |-> "VERDE", tipo |-> tipo,
      console_logger |-> con_logger,
      duracion_verde |-> verde, duracion_rojo |-> rojo, duracion_amarillo |-> 3,
      tiempo_cambio |-> t + primero, cambios_estado |-> 0 ]

\* the ranges random.uniform draws from in _configurar_tiempos
RangoVerde(tipo) == IF tipo = "principal" THEN 8..15 ELSE 5..10

RangoRojo(tipo) == IF tipo = "principal" THEN 6..12 ELSE 4..8

\* a faulty variant of the state change: a light whose deadline passed more
\* than a yellow phase ago goes from VERDE straight to ROJO
SemaforoSiguienteSaltando(s, t) ==
    IF s.estado = "VERDE"
    THEN IF t - s.tiempo_cambio > s.duracion_amarillo
         THEN [s EXCEPT !.estado = "ROJO", !.tiempo_cambio = t + s.duracion_rojo]
         ELSE [s EXCEPT !.estado = "AMARILLO",
                        !.tiempo_cambio = t + s.duracion_amarillo]
    ELSE IF s.estado = "AMARILLO"
    THEN [s EXCEPT !.estado = "ROJO", !.tiempo_cambio = t + s.duracion_rojo]
    ELSE [s EXCEPT !.estado = "VERDE", !.tiempo_cambio = t + s.duracion_verde]

\* a faulty variant of the state change: the new deadline is counted from the
\* old deadline, not from the tick
SemaforoSiguienteSinRetraso(s, t) ==
    IF s.estado = "VERDE"
    THEN [s EXCEPT !.estado = "AMARILLO",
                   !.tiempo_cambio = @ + s.duracion_amarillo]
    ELSE IF s.estado = "AMARILLO"
    THEN [s EXCEPT !.estado = "ROJO", !.tiempo_cambio = @ + s.duracion_rojo]
    ELSE [s EXCEPT !.estado = "VERDE", !.tiempo_cambio = @ + s.duracion_verde]

\* a faulty variant of the state change: a red light whose deadline passed
\* gets a new deadline and stays red
SemaforoSiguienteSinVerde(s, t) ==
    IF s.estado = "VERDE"
    THEN [s EXCEPT !.estado = "AMARILLO", !.tiempo_cambio = t + s.duracion_amarillo]
    ELSE IF s.estado = "AMARILLO"
    THEN [s EXCEPT !.estado = "ROJO", !.tiempo_cambio = t + s.duracion_rojo]
    ELSE [s EXCEPT !.tiempo_cambio = t + s.duracion_rojo]

\* the state change of Semaforo.actualizar at time t
SemaforoSiguiente(s, t) ==
    IF s.estado = "VERDE"
    THEN [s EXCEPT !.estado = "AMARILLO", !.tiempo_cambio = t + s.duracion_amarillo]
    ELSE IF s.estado = "AMARILLO"
    THEN [s EXCEPT !.estado = "ROJO", !.tiempo_cambio = t + s.duracion_rojo]
    ELSE [s EXCEPT !.estado = "VERDE", !.tiempo_cambio = t + s.duracion_verde]

\* whether Semaforo.actualizar at time t notifies the console logger
SemaforoNotifica(s, t) ==
    t >= s.tiempo_cambio /\ s.console_logger
    /\ SemaforoSiguiente(s, t).estado # s.estado

\* Semaforo.actualizar at time t: the light afterwards
SemaforoActualizar(s, t) ==
    IF t >= s.tiempo_cambio
    THEN LET c == SemaforoSiguiente(s, t)
         IN  IF SemaforoNotifica(s, t)
             THEN [c EXCEPT !.cambios_estado = s.cambios_estado + 1]
             ELSE c
    ELSE s

\* Semaforo.tiempo_restante at time t
tiempo_restante(s, t) == Max(0, s.tiempo_cambio - t)

\* the duration forzar_estado takes when it is given none (lines 98-104)
duracion_de(s, estado) ==
    IF estado = "VERDE" THEN s.duracion_verde
    ELSE IF estado = "AMARILLO" THEN s.duracion_amarillo
    ELSE s.duracion_rojo

\* Semaforo.porcentaje_tiempo_restante at time t, in whole percents
porcentaje_tiempo_restante(s, t) ==
    (tiempo_restante(s, t) * 100) \div duracion_de(s, s.estado)

\* a faulty variant of forzar_estado: the state is set, the deadline stays
forzar_estado_sin_plazo(s, nuevo_estado, duracion, t) ==
    [s EXCEPT !.estado = nuevo_estado]

\* Semaforo.forzar_estado(nuevo_estado, duracion) at time t: the light
\* afterwards; duracion is <<>> for None and <<n>> for the number n
forzar_estado(s, nuevo_estado, duracion, t) ==
    [s EXCEPT !.estado = nuevo_estado,
              !.tiempo_cambio =
                  t + (IF duracion = <<>> THEN duracion_de(s, nuevo_estado)
                       ELSE duracion[1])]

\* Semaforo.ajustar_ciclo(factor)
ajustar_ciclo(s, factor) ==
    [s EXCEPT !.duracion_verde = @ * factor, !.duracion_rojo = @ * factor]

\* Semaforo.permitir_paso
permitir_paso(s) == s.estado = "VERDE"

-----------------------------------------------------------------------------
(* Vehiculo (src/src/vehiculo.py) *)

Tipos == {"AUTO", "COMBI", "MOTO", "TAXI"}

\* VELOCIDADES_BASE, in hundredths
VelocidadBase(tipo) ==
    CASE tipo = "AUTO" -> 250 [] tipo = "COMBI" -> 180
      [] tipo = "MOTO" -> 320 [] tipo = "TAXI" -> 200

\* Vehiculo._obtener_velocidad_maxima; variacion is random.uniform(0.8, 1.2)
\* in percent
obtener_velocidad_maxima(tipo, calle, variacion) ==
    LET factor == IF calle.tipo = "empedrada" THEN 60
                  ELSE IF calle.tipo = "secundaria" THEN 80 ELSE 100
    IN  (VelocidadBase(tipo) * factor * variacion) \div 10000

\* the range of comportamiento['agresividad'] in percent (_obtener_comportamiento)
RangoAgresividad(tipo) ==
    CASE tipo = "AUTO" -> 30..70 [] tipo = "COMBI" -> 60..90
      [] tipo = "MOTO" -> 80..100 [] tipo = "TAXI" -> 40..80

\* comportamiento.get('paradas_frecuentes')
paradas_frecuentes(tipo) == tipo = "COMBI"

\* Vehiculo._calcular_direccion_inicial and _actualizar_direccion
DireccionCalle(calle) ==
    Atan2(calle.fin.y - calle.inicio.y, calle.fin.x - calle.inicio.x)

\* a notification handed to ConsoleLogger.log_evento_vehiculo
EventoVehiculo(texto, v) == [clase |-> "vehiculo", evento |-> texto, oid |-> v.oid]

\* Vehiculo.__init__ followed by establecer_ruta(ruta); calle is the index of
\* calle_inicial; variacion, agresividad and numero are the random draws
VehiculoNuevo(oid, tipo, posicion, calle, ruta, t, variacion, agresividad, numero) ==
    [ oid |-> oid, tipo |-> tipo, posicion |-> posicion, calle_actual |-> calle,
      direccion |-> DireccionCalle(calles[calle]),
      velocidad_maxima |-> obtener_velocidad_maxima(tipo, calles[calle], variacion),
      velocidad_actual |-> 0, velocidad_objetivo |-> 0,
      ruta |-> ruta, indice_ruta |-> 0, tiempo_parada |-> 0,
      agresividad |-> agresividad, id |-> <<tipo, numero>>,
      tiempo_creacion |-> t, distancia_recorrida |-> 0,
      cambios_velocidad |-> 0, tiempo_ultimo_evento |-> t ]

\* the shorter angular difference between the heading and the bearing of
\* hacia as seen from desde (lines 243-248 and 262-267)
diferencia_angulo(direccion, desde, hacia) ==
    LET d == Abs(direccion - Atan2(hacia.y - desde.y, hacia.x - desde.x))
    IN  Min(d, 2 * Pi - d)

\* a faulty variant of the light check: a light exactly 80 units away is
\* already too far
debe_detenerse_por_semaforo_corto(v, semaforo) ==
    IF semaforo.estado = "VERDE" THEN FALSE
    ELSE IF Distancia2(v.posicion, semaforo.posicion) >= (80 * U) * (80 * U) THEN FALSE
    ELSE diferencia_angulo(v.direccion, v.posicion, semaforo.posicion) < Pi \div 3

\* Vehiculo._debe_detenerse_por_semaforo
debe_detenerse_por_semaforo(v, semaforo) ==
    IF semaforo.estado = "VERDE" THEN FALSE
    ELSE IF Distancia2(v.posicion, semaforo.posicion) > (80 * U) * (80 * U) THEN FALSE
    ELSE diferencia_angulo(v.direccion, v.posicion, semaforo.posicion) < Pi \div 3

\* a faulty variant of the test of lines 258-269: the vehicle itself is not
\* skipped
esta_adelante_o_es_el_mismo(v, otros, j) ==
    diferencia_angulo(v.direccion, v.posicion, otros[j].posicion) < Pi \div 4

\* whether otros[j] is another vehicle within 45 degrees of the heading of v
\* (lines 258-269)
esta_adelante(v, otros, j) ==
    /\ otros[j].oid # v.oid
    /\ diferencia_angulo(v.direccion, v.posicion, otros[j].posicion) < Pi \div 4

\* Vehiculo._encontrar_vehiculo_adelante: the index in otros of the vehicle
\* found, 0 for None; the loop keeps the first vehicle of minimal distance
encontrar_vehiculo_adelante(v, otros) ==
    CHOOSE j \in 0..Len(otros) :
        IF j = 0
        THEN \A k \in 1..Len(otros) : ~esta_adelante(v, otros, k)
        ELSE /\ esta_adelante(v, otros, j)
             /\ \A k \in 1..Len(otros) :
                   esta_adelante(v, otros, k) =>
                       \/ Distancia2(v.posicion, otros[j].posicion)
                              < Distancia2(v.posicion, otros[k].posicion)
                       \/ /\ Distancia2(v.posicion, otros[j].posicion)
                                 = Distancia2(v.posicion, otros[k].posicion)
                          /\ j <= k

\* the loop over the lights of _calcular_velocidad_objetivo (lines 214-220)
velocidad_por_semaforos(v, sems) ==
    IF \E i \in 1..Len(sems) : debe_detenerse_por_semaforo(v, sems[i])
    THEN 0 ELSE v.velocidad_maxima

\* a faulty variant of the limit of the vehicle ahead: the factor 0.8 at every
\* distance below 60
velocidad_por_vehiculo_laxa(v, adelante, vel_objetivo) ==
    IF Distancia2(v.posicion, adelante.posicion) < (60 * U) * (60 * U)
    THEN Min(vel_objetivo, (adelante.velocidad_actual * 8) \div 10)
    ELSE vel_objetivo

\* the limit the vehicle ahead adds to vel_objetivo (lines 224-229); adelante
\* is the vehicle found
velocidad_por_vehiculo(v, adelante, vel_objetivo) ==
    IF Distancia2(v.posicion, adelante.posicion) < (40 * U) * (40 * U)
    THEN Min(vel_objetivo, (adelante.velocidad_actual * 5) \div 10)
    ELSE IF Distancia2(v.posicion, adelante.posicion) < (60 * U) * (60 * U)
    THEN Min(vel_objetivo, (adelante.velocidad_actual * 8) \div 10)
    ELSE vel_objetivo

\* Vehiculo._calcular_velocidad_objetivo
calcular_velocidad_objetivo(v, otros, sems) ==
    CHOOSE r \in
        { IF j = 0 THEN velocidad_por_semaforos(v, sems)
          ELSE velocidad_por_vehiculo(v, otros[j], velocidad_por_semaforos(v, sems)) :
          j \in {encontrar_vehiculo_adelante(v, otros)} } : TRUE

\* a faulty variant of the condition of a passenger stop: the kind of the
\* vehicle is not looked at
inicia_parada_de_cualquiera(v, parada) == parada > 0

\* whether _aplicar_comportamiento_especial starts a passenger stop; parada is
\* 0 when random.random() is not below 0.001, else the value drawn for
\* tiempo_parada
inicia_parada(v, parada) ==
    v.tipo = "COMBI" /\ paradas_frecuentes(v.tipo) /\ parada > 0

\* Vehiculo._aplicar_comportamiento_especial
aplicar_comportamiento_especial(v, parada) ==
    IF (IF inicia_parada(v, parada) THEN parada ELSE v.tiempo_parada) > 0
    THEN [v EXCEPT !.tiempo_parada =
                       (IF inicia_parada(v, parada) THEN parada ELSE @) - 1,
                   !.velocidad_objetivo = 0]
    ELSE v

\* a faulty variant of the speed integration: acceleration is not limited by
\* the target
actualizar_velocidad_sin_tope(v) ==
    IF v.velocidad_actual < v.velocidad_objetivo
    THEN v.velocidad_actual + (8 * v.agresividad) \div 100
    ELSE Max(v.velocidad_actual - 15, Max(0, v.velocidad_objetivo))

\* a faulty variant of the speed integration: a vehicle that is not below
\* its target takes the target speed at once
actualizar_velocidad_frenando_en_seco(v) ==
    IF v.velocidad_actual < v.velocidad_objetivo
    THEN Min(v.velocidad_actual + (8 * v.agresividad) \div 100,
             v.velocidad_objetivo)
    ELSE Max(0, v.velocidad_objetivo)

\* a faulty variant of the speed integration: braking is not stopped at the
\* target or at 0
actualizar_velocidad_sin_piso(v) ==
    IF v.velocidad_actual < v.velocidad_objetivo
    THEN Min(v.velocidad_actual + (8 * v.agresividad) \div 100,
             v.velocidad_objetivo)
    ELSE v.velocidad_actual - 15

\* Vehiculo._actualizar_velocidad: the new velocidad_actual
actualizar_velocidad(v) ==
    IF v.velocidad_actual < v.velocidad_objetivo
    THEN Min(v.velocidad_actual + (8 * v.agresividad) \div 100,
             v.velocidad_objetivo)
    ELSE Max(v.velocidad_actual - 15, Max(0, v.velocidad_objetivo))

\* Vehiculo._determinar_evento_velocidad
determinar_evento_velocidad(v, velocidad_anterior) ==
    IF v.velocidad_actual < 50 THEN "DETENIDO (...)"
    ELSE IF v.velocidad_actual < velocidad_anterior THEN "FRENANDO (...)"
    ELSE "ACELERANDO (...)"

\* a faulty variant of the movement: the position stays as it is
mover_sin_avance(v) == v.posicion

\* Vehiculo._mover with ruido = 0: the new position
mover(v) ==
    [ x |-> v.posicion.x + Cos(v.direccion) * v.velocidad_actual,
      y |-> v.posicion.y + Sin(v.direccion) * v.velocidad_actual ]

\* progreso >= 1.0 for the value of Vehiculo._calcular_progreso_en_calle
progreso_completo(v) ==
    IF v.ruta = <<>> THEN TRUE
    ELSE IF Distancia2(calles[v.ruta[v.indice_ruta + 1]].inicio,
                       calles[v.ruta[v.indice_ruta + 1]].fin) > 0
    THEN Distancia2(calles[v.ruta[v.indice_ruta + 1]].inicio, v.posicion)
             >= Distancia2(calles[v.ruta[v.indice_ruta + 1]].inicio,
                           calles[v.ruta[v.indice_ruta + 1]].fin)
    ELSE TRUE

\* Punto.distancia_a for two points at most tope apart (floor of the root)
distancia_a(p, q, tope) ==
    CHOOSE r \in 0..tope :
        r * r <= Distancia2(p, q) /\ (r + 1) * (r + 1) > Distancia2(p, q)

\* a faulty variant of the test of line 176: a change of more than 0.1 counts
cambio_significativo_leve(v, velocidad_anterior) ==
    Abs(v.velocidad_actual - velocidad_anterior) > 10

\* whether the speed changed by more than 1.0 in this update (line 176)
cambio_significativo(v, velocidad_anterior) ==
    Abs(v.velocidad_actual - velocidad_anterior) > 100

\* a faulty variant of lines 176-192: the distance travelled grows by the
\* target speed instead of the distance moved
ContarYMoverPorObjetivo(v, antes) ==
    [ v |-> [v EXCEPT
               !.cambios_velocidad =
                   IF cambio_significativo(v, antes.velocidad_actual)
                   THEN @ + 1 ELSE @,
               !.posicion = mover(v),
               !.distancia_recorrida = @ + v.velocidad_objetivo],
      vivo |-> TRUE,
      evs |-> IF cambio_significativo(v, antes.velocidad_actual)
                 /\ (v.cambios_velocidad + 1) % 5 = 0
              THEN <<EventoVehiculo(
                         determinar_evento_velocidad(v, antes.velocidad_actual),
                         v)>>
              ELSE <<>> ]

\* lines 176-192 of Vehiculo.actualizar for the vehicle v whose speed has been
\* integrated; antes is the vehicle as the update found it
ContarYMover(v, antes) ==
    [ v |-> [v EXCEPT
               !.cambios_velocidad =
                   IF cambio_significativo(v, antes.velocidad_actual)
                   THEN @ + 1 ELSE @,
               !.posicion = mover(v),
               !.distancia_recorrida =
                   @ + distancia_a(antes.posicion, mover(v),
                                   v.velocidad_maxima + 100)],
      vivo |-> TRUE,
      evs |-> IF cambio_significativo(v, antes.velocidad_actual)
                 /\ (v.cambios_velocidad + 1) % 5 = 0
              THEN <<EventoVehiculo(
                         determinar_evento_velocidad(v, antes.velocidad_actual),
                         v)>>
              ELSE <<>> ]

\* lines 165-192 of Vehiculo.actualizar: the update once the route checks
\* have passed; the vehicle afterwards, the value returned (vivo) and the
\* notifications made (evs)
ActualizarMovimiento(v, otros, sems, parada) ==
    CHOOSE r \in
        { [ContarYMover(v3, v) EXCEPT
              !.evs = (IF inicia_parada(v, parada)
                       THEN <<EventoVehiculo("PARADA DE PASAJEROS (...)", v)>>
                       ELSE <<>>) \o @] :
          v3 \in { [v2 EXCEPT !.velocidad_actual = actualizar_velocidad(v2)] :
                   v2 \in { aplicar_comportamiento_especial(v1, parada) :
                            v1 \in { [v EXCEPT !.velocidad_objetivo =
                                        calcular_velocidad_objetivo(v, otros, sems)] } } } } :
        TRUE

\* a faulty variant of lines 150-163: a change of street is notified again
\* once 5 seconds have passed, not only after more than 5
CambiarDeCalleALosCinco(w, otros, sems, t, parada) ==
    CHOOSE r \in
        { [m EXCEPT !.evs =
              (IF t - w.tiempo_ultimo_evento >= 5
               THEN <<EventoVehiculo("CAMBIO DE VIA (...)", w)>>
               ELSE <<>>) \o @] :
          m \in { ActualizarMovimiento(
                      [w EXCEPT
                         !.direccion =
                             DireccionCalle(calles[w.ruta[w.indice_ruta + 1]]),
                         !.tiempo_ultimo_evento =
                             IF t - w.tiempo_ultimo_evento >= 5 THEN t ELSE @],
                      otros, sems, parada) } } : TRUE

\* lines 150-163 of Vehiculo.actualizar for a vehicle w whose cursor has just
\* advanced onto a segment of its route
CambiarDeCalle(w, otros, sems, t, parada) ==
    CHOOSE r \in
        { [m EXCEPT !.evs =
              (IF t - w.tiempo_ultimo_evento > 5
               THEN <<EventoVehiculo("CAMBIO DE VIA (...)", w)>>
               ELSE <<>>) \o @] :
          m \in { ActualizarMovimiento(
                      [w EXCEPT
                         !.direccion =
                             DireccionCalle(calles[w.ruta[w.indice_ruta + 1]]),
                         !.tiempo_ultimo_evento =
                             IF t - w.tiempo_ultimo_evento > 5 THEN t ELSE @],
                      otros, sems, parada) } } : TRUE

\* a faulty variant of the branch for a route that is empty or exhausted: the
\* cursor advances and nothing is notified
ruta_completada_muda(v) ==
    [v |-> [v EXCEPT !.indice_ruta = @ + 1], vivo |-> FALSE, evs |-> <<>>]

\* lines 138-144 of Vehiculo.actualizar: the route is empty or exhausted
ruta_completada(v) ==
    [v |-> v, vivo |-> FALSE,
     evs |-> <<EventoVehiculo("RUTA COMPLETADA (...)", v)>>]

\* Vehiculo.actualizar(otros, sems) at time t: the vehicle afterwards, the
\* value returned (vivo) and the notifications made (evs)
VehiculoActualizar(v, otros, sems, t, parada) ==
    IF v.ruta = <<>> \/ v.indice_ruta >= Len(v.ruta)
    THEN ruta_completada(v)
    ELSE IF progreso_completo(v)
    THEN IF v.indice_ruta + 1 >= Len(v.ruta)
         THEN [v |-> [v EXCEPT !.indice_ruta = @ + 1], vivo |-> FALSE,
               evs |-> <<>>]
         ELSE CambiarDeCalle([v EXCEPT !.indice_ruta = @ + 1], otros, sems, t,
                             parada)
    ELSE ActualizarMovimiento(v, otros, sems, parada)

-----------------------------------------------------------------------------
(* ConfiguracionSimulacion and EstadisticasTrafico (src/src/models.py) *)

\* ConfiguracionSimulacion.validar
validar(c) ==
    /\ c.ancho_pantalla > 0
    /\ c.alto_pantalla > 0
    /\ c.fps > 0
    /\ c.max_vehiculos > 0
    /\ 0 <= c.hora_inicial /\ c.hora_inicial < 24000

\* EstadisticasTrafico()
EstadisticasNuevas ==
    [ autos |-> 0, combis |-> 0, motos |-> 0, taxis |-> 0,
      promedio_velocidad |-> 0, congestion |-> 0,
      vehiculos_activos |-> 0, vehiculos_generados |-> 0 ]

\* EstadisticasTrafico.reset
reset(e) ==
    [e EXCEPT !.autos = 0, !.combis = 0, !.motos = 0, !.taxis = 0,
              !.promedio_velocidad = 0, !.congestion = 0, !.vehiculos_activos = 0]

-----------------------------------------------------------------------------
(* GeneradorMapaCusco (src/src/mapa_cusco.py) *)

\* GeneradorMapaCusco.validar_mapa; m.edificios and m.landmarks are the
\* lengths of the two lists
validar_mapa(m) ==
    /\ m.calles # <<>>
    /\ \A i \in 1..Len(m.calles) :
          /\ ~(m.calles[i].ancho <= 0 \/ m.calles[i].velocidad_maxima <= 0)
          /\ ~(Distancia2(m.calles[i].inicio, m.calles[i].fin) <= 0)
    /\ m.edificios # 0
    /\ m.landmarks # 0

-----------------------------------------------------------------------------
(* SimulacionTrafico (src/src/simulacion.py): the spawner *)

\* the driver's fields as one record, so that the steps of a handler compose
Sim ==
    [ semaforos |-> semaforos, vehiculos |-> vehiculos,
      estadisticas |-> estadisticas, hora_simulada |-> hora_simulada,
      vehiculos_generados |-> vehiculos_generados,
      tiempo_ultima_generacion |-> tiempo_ultima_generacion,
      max_vehiculos_simultaneos |-> max_vehiculos_simultaneos,
      ejecutando |-> ejecutando, pausado |-> pausado,
      narrador |-> narrador, console_logger |-> console_logger,
      error |-> error, eventos |-> <<>>, sig_oid |-> sig_oid,
      generado |-> "nada" ]

\* PATRONES_TRAFICO as selected by _obtener_patron_horario_actual; factor is in
\* tenths
obtener_patron_horario_actual(hora) ==
    IF 6000 <= hora /\ hora < 12000
    THEN [factor |-> 12, tipos |-> <<"AUTO", "COMBI", "TAXI">>]
    ELSE IF 12000 <= hora /\ hora < 18000
    THEN [factor |-> 15, tipos |-> <<"COMBI", "AUTO", "TAXI">>]
    ELSE IF 18000 <= hora /\ hora < 22000
    THEN [factor |-> 8, tipos |-> <<"AUTO", "MOTO">>]
    ELSE [factor |-> 4, tipos |-> <<"TAXI", "AUTO">>]

\* a faulty variant of the search of lines 183-189: the street itself is not
\* left out
calles_conectadas_con_la_misma(actual) ==
    SelectSeq([j \in 1..Len(calles) |-> j],
              LAMBDA j :
                 \/ Distancia2(calles[actual].fin, calles[j].inicio)
                        < (50 * U) * (50 * U)
                 \/ Distancia2(calles[actual].fin, calles[j].fin)
                        < (50 * U) * (50 * U))

\* the streets connected to calle_actual in _generar_ruta_realista (lines 183-189)
calles_conectadas(actual) ==
    SelectSeq([j \in 1..Len(calles) |-> j],
              LAMBDA j :
                 /\ calles[j] # calles[actual]
                 /\ \/ Distancia2(calles[actual].fin, calles[j].inicio)
                          < (50 * U) * (50 * U)
                    \/ Distancia2(calles[actual].fin, calles[j].fin)
                          < (50 * U) * (50 * U))

\* the loop of _generar_ruta_realista from its iteration i on: largo is
\* random.randint(3, 7) and sel[i] the draw of random.choice in iteration i
RECURSIVE generar_ruta_desde(_, _, _, _, _)
generar_ruta_desde(ruta, intentos, i, largo, sel) ==
    IF i > largo \/ intentos >= 20 THEN ruta
    ELSE LET conectadas == calles_conectadas(ruta[Len(ruta)])
         IN  IF conectadas # <<>>
             THEN generar_ruta_desde(
                      Append(ruta, conectadas[(sel[i] % Len(conectadas)) + 1]),
                      0, i + 1, largo, sel)
             ELSE generar_ruta_desde(ruta, intentos + 1, i + 1, largo, sel)

\* SimulacionTrafico._generar_ruta_realista
generar_ruta_realista(calle_inicial, largo, sel) ==
    generar_ruta_desde(<<calle_inicial>>, 0, 1, largo, sel)

\* SimulacionTrafico._actualizar_estadisticas_vehiculo
actualizar_estadisticas_vehiculo(e, tipo, incremento) ==
    IF tipo = "AUTO" THEN [e EXCEPT !.autos = @ + incremento]
    ELSE IF tipo = "COMBI" THEN [e EXCEPT !.combis = @ + incremento]
    ELSE IF tipo = "MOTO" THEN [e EXCEPT !.motos = @ + incremento]
    ELSE IF tipo = "TAXI" THEN [e EXCEPT !.taxis = @ + incremento]
    ELSE e

\* Calle.punto_en_progreso, progreso in percent
punto_en_progreso(calle, progreso) ==
    LET p == Max(0, Min(100, progreso))
    IN  [ x |-> calle.inicio.x + ((calle.fin.x - calle.inicio.x) * p) \div 100,
          y |-> calle.inicio.y + ((calle.fin.y - calle.inicio.y) * p) \div 100 ]

\* the indices of the streets a vehicle may start on (line 138)
calles_principales ==
    { j \in 1..Len(calles) : calles[j].tipo \in {"principal", "secundaria"} }

\* a faulty variant of the admission: the largest number of simultaneous
\* vehicles is not brought up to date
admitir_vehiculo_sin_maximo(s, v, t) ==
    [s EXCEPT
       !.vehiculos = Append(@, v),
       !.sig_oid = @ + 1,
       !.vehiculos_generados = @ + 1,
       !.estadisticas = actualizar_estadisticas_vehiculo(@, v.tipo, 1),
       !.tiempo_ultima_generacion = t,
       !.narrador = agregar_mensaje(
                        log_evento_vehiculo(@, "NUEVO " \o v.tipo, t), t),
       !.eventos = Append(@, EventoVehiculo("NUEVO " \o v.tipo, v)),
       !.generado = "si"]

\* a faulty variant of the admission: the vehicle is not counted as generated
admitir_vehiculo_sin_contar(s, v, t) ==
    [s EXCEPT
       !.vehiculos = Append(@, v),
       !.sig_oid = @ + 1,
       !.estadisticas = actualizar_estadisticas_vehiculo(@, v.tipo, 1),
       !.tiempo_ultima_generacion = t,
       !.max_vehiculos_simultaneos = Max(@, Len(s.vehiculos) + 1),
       !.narrador = agregar_mensaje(
                        log_evento_vehiculo(@, "NUEVO " \o v.tipo, t), t),
       !.eventos = Append(@, EventoVehiculo("NUEVO " \o v.tipo, v)),
       !.generado = "si"]

\* lines 155-169 of _generar_vehiculo_inteligente: the vehicle v, created and
\* routed, joins the simulation
admitir_vehiculo(s, v, t) ==
    [s EXCEPT
       !.vehiculos = Append(@, v),
       !.sig_oid = @ + 1,
       !.vehiculos_generados = @ + 1,
       !.estadisticas = actualizar_estadisticas_vehiculo(@, v.tipo, 1),
       !.tiempo_ultima_generacion = t,
       !.max_vehiculos_simultaneos = Max(@, Len(s.vehiculos) + 1),
       !.narrador = agregar_mensaje(
                        log_evento_vehiculo(@, "NUEVO " \o v.tipo, t), t),
       !.eventos = Append(@, EventoVehiculo("NUEVO " \o v.tipo, v)),
       !.generado = "si"]

\* a choice of the kind that ignores the pattern of the hour
tipo_sorteado_sin_patron(hora, d) ==
    << "AUTO", "COMBI", "TAXI", "MOTO" >>[(d.tipo % 4) + 1]

\* the kind random.choice picks from the pattern of the hour (lines 134-135)
tipo_sorteado(hora, d) ==
    obtener_patron_horario_actual(hora).tipos[
        (d.tipo % Len(obtener_patron_horario_actual(hora).tipos)) + 1]

\* SimulacionTrafico._generar_vehiculo_inteligente at time t with the random
\* draws d; generado tells what it returned ("si" for True, "no" for False).
\* Vehiculo.__init__ calls a method of console_logger, which is None when the
\* narrator is off.
generar_vehiculo_inteligente(s, t, d) ==
    IF (t - s.tiempo_ultima_generacion)
           * obtener_patron_horario_actual(s.hora_simulada).factor
       < d.intervalo_base * 10
    THEN [s EXCEPT !.generado = "no"]
    ELSE IF Len(s.vehiculos) >= config.max_vehiculos
    THEN [s EXCEPT !.generado = "no"]
    ELSE IF calles_principales = {}
    THEN [s EXCEPT !.generado = "no"]
    ELSE IF s.console_logger = Ninguno
    THEN [s EXCEPT !.error = "AttributeError", !.generado = "error"]
    ELSE CHOOSE r \in
             { admitir_vehiculo(s, v, t) :
               v \in { VehiculoNuevo(
                           s.sig_oid, tipo_sorteado(s.hora_simulada, d),
                           punto_en_progreso(calles[d.calle], d.progreso),
                           d.calle,
                           generar_ruta_realista(d.calle, d.largo, d.sel),
                           t, d.variacion,
                           d.agresividad[tipo_sorteado(s.hora_simulada, d)],
                           d.numero) } } : TRUE

-----------------------------------------------------------------------------
(* SimulacionTrafico (src/src/simulacion.py): the tick driver *)

\* a notification handed to ConsoleLogger.log_cambio_semaforo by light i
EventoSemaforo(estado, i) == [clase |-> "semaforo", evento |-> estado, oid |-> i]

\* the lights that notify in a tick at time t, in the order of the list
semaforos_que_notifican(sems, t) ==
    SelectSeq([i \in 1..Len(sems) |-> i],
              LAMBDA i : SemaforoNotifica(sems[i], t))

\* the narrator after the console logger has passed it the notifications evs
RECURSIVE narrador_tras(_, _, _)
narrador_tras(n, evs, t) ==
    IF evs = <<>> THEN n
    ELSE CHOOSE r \in
             { narrador_tras(n2, Tail(evs), t) :
               n2 \in { IF Head(evs).clase = "semaforo"
                        THEN log_cambio_semaforo(n, Head(evs).evento, t)
                        ELSE log_evento_vehiculo(n, Head(evs).evento, t) } } :
             TRUE

\* the notifications evs reach the console logger of the driver s
notificar(s, evs, t) ==
    [s EXCEPT !.narrador = IF @ = Ninguno THEN @ ELSE narrador_tras(@, evs, t),
              !.eventos = @ \o evs]

\* the loop over self.semaforos (lines 226-227) at time t
actualizar_semaforos(s, t) ==
    notificar(
        [s EXCEPT !.semaforos =
            [i \in 1..Len(s.semaforos) |-> SemaforoActualizar(s.semaforos[i], t)]],
        [k \in 1..Len(semaforos_que_notifican(s.semaforos, t)) |->
            EventoSemaforo(
                SemaforoSiguiente(
                    s.semaforos[semaforos_que_notifican(s.semaforos, t)[k]],
                    t).estado,
                semaforos_que_notifican(s.semaforos, t)[k])],
        t)

\* the loop over self.vehiculos (lines 230-233) from vehicle i on: every
\* vehicle sees the vehicles before it as already updated; a_eliminar holds
\* the identities of vehiculos_a_eliminar
RECURSIVE actualizar_vehiculos(_, _, _, _, _)
actualizar_vehiculos(acc, i, sems, t, paradas) ==
    IF i > Len(acc.vehiculos) THEN acc
    ELSE CHOOSE res \in
             { actualizar_vehiculos(
                   [vehiculos |-> [acc.vehiculos EXCEPT ![i] = r.v],
                    evs |-> acc.evs \o r.evs,
                    a_eliminar |-> IF r.vivo THEN acc.a_eliminar
                                   ELSE Append(acc.a_eliminar,
                                               acc.vehiculos[i].oid)],
                   i + 1, sems, t, paradas) :
               r \in { VehiculoActualizar(acc.vehiculos[i], acc.vehiculos,
                                          sems, t, paradas[i]) } } : TRUE

\* a faulty variant of the removal: no vehicle is taken for one to remove
por_eliminar_ninguno(v, a_eliminar) == FALSE

\* whether the vehicle v is among vehiculos_a_eliminar
por_eliminar(v, a_eliminar) ==
    \E k \in 1..Len(a_eliminar) : a_eliminar[k] = v.oid

\* a faulty variant of the loop of lines 236-238: the counters of the kinds
\* are left as they are
estadisticas_sin_descontar(e, eliminados) == e

\* the loop that removes vehiculos_a_eliminar (lines 236-238): the statistics
RECURSIVE estadisticas_tras_eliminar(_, _)
estadisticas_tras_eliminar(e, eliminados) ==
    IF eliminados = <<>> THEN e
    ELSE estadisticas_tras_eliminar(
             actualizar_estadisticas_vehiculo(e, Head(eliminados).tipo, -1),
             Tail(eliminados))

\* lines 230-238 of _actualizar_simulacion, lv being what the loop over the
\* vehicles produced
eliminar_vehiculos(s, lv, t) ==
    notificar(
        [s EXCEPT
           !.vehiculos = SelectSeq(lv.vehiculos,
                                   LAMBDA v : ~por_eliminar(v, lv.a_eliminar)),
           !.estadisticas =
               estadisticas_tras_eliminar(
                   @, SelectSeq(lv.vehiculos,
                                LAMBDA v : por_eliminar(v, lv.a_eliminar)))],
        lv.evs, t)

\* the zones of _analizar_congestion_por_zonas, in the order of the dictionary
Zonas ==
    << [zona |-> "CENTRO", x_min |-> 400 * U, x_max |-> 800 * U,
        y_min |-> 300 * U, y_max |-> 700 * U],
       [zona |-> "NORTE", x_min |-> 0, x_max |-> 1600 * U,
        y_min |-> 0, y_max |-> 300 * U],
       [zona |-> "SUR", x_min |-> 0, x_max |-> 1600 * U,
        y_min |-> 700 * U, y_max |-> 1000 * U],
       [zona |-> "ESTE", x_min |-> 800 * U, x_max |-> 1600 * U,
        y_min |-> 0, y_max |-> 1000 * U],
       [zona |-> "OESTE", x_min |-> 0, x_max |-> 400 * U,
        y_min |-> 0, y_max |-> 1000 * U] >>

\* vehiculos_zona of _analizar_congestion_por_zonas, as positions in the list
vehiculos_zona(lista, z) ==
    { j \in 1..Len(lista) :
        /\ z.x_min <= lista[j].posicion.x /\ lista[j].posicion.x <= z.x_max
        /\ z.y_min <= lista[j].posicion.y /\ lista[j].posicion.y <= z.y_max }

\* the number of vehicles, among those at the positions js of the list, below
\* half their own maximal speed
vehiculos_lentos(lista, js) ==
    Cardinality({ j \in js :
                    2 * lista[j].velocidad_actual < lista[j].velocidad_maxima })

\* ConsoleLogger.detectar_congestion for the level 100 * lentos / total of a
\* zone: the logger (cl) and the narrator (n) afterwards
detectar_congestion(cl, n, lentos, total, zona, t) ==
    IF lentos * 100 > 80 * total /\ zona \notin cl.alertas_activas
    THEN [cl |-> [cl EXCEPT !.alertas_activas = @ \cup {zona}],
          n |-> analizar_congestion(n, (lentos * 100) \div total, t)]
    ELSE IF lentos * 100 < 60 * total /\ zona \in cl.alertas_activas
    THEN [cl |-> [cl EXCEPT !.alertas_activas = @ \ {zona}], n |-> n]
    ELSE [cl |-> cl, n |-> n]

\* SimulacionTrafico._analizar_congestion_por_zonas from zone i on; r holds
\* the logger and the narrator
RECURSIVE analizar_congestion_por_zonas(_, _, _, _)
analizar_congestion_por_zonas(r, lista, i, t) ==
    IF i > Len(Zonas) THEN r
    ELSE CHOOSE res \in
             { analizar_congestion_por_zonas(r2, lista, i + 1, t) :
               r2 \in { IF vehiculos_zona(lista, Zonas[i]) # {}
                        THEN detectar_congestion(
                                 r.cl, r.n,
                                 vehiculos_lentos(lista,
                                     vehiculos_zona(lista, Zonas[i])),
                                 Cardinality(vehiculos_zona(lista, Zonas[i])),
                                 Zonas[i].zona, t)
                        ELSE r } } : TRUE

\* the sum of the speeds of the vehicles of a list
RECURSIVE velocidad_total(_)
velocidad_total(lista) ==
    IF lista = <<>> THEN 0
    ELSE Head(lista).velocidad_actual + velocidad_total(Tail(lista))

\* a faulty variant of the statistics: the congestion never falls below the
\* one of the tick before
estadisticas_de_acumulada(e, lista) ==
    [e EXCEPT
       !.promedio_velocidad = velocidad_total(lista) \div Len(lista),
       !.congestion =
           Max(e.congestion,
               (vehiculos_lentos(lista, 1..Len(lista)) * 10000) \div Len(lista))]

\* lines 253-260 of _actualizar_estadisticas_generales; promedio_velocidad is
\* in hundredths, congestion in hundredths of a percent
estadisticas_de(e, lista) ==
    [e EXCEPT
       !.promedio_velocidad = velocidad_total(lista) \div Len(lista),
       !.congestion =
           Min(10000,
               (vehiculos_lentos(lista, 1..Len(lista)) * 10000) \div Len(lista))]

\* SimulacionTrafico._actualizar_estadisticas_generales at time t
actualizar_estadisticas_generales(s, t) ==
    IF s.vehiculos = <<>>
    THEN [s EXCEPT !.estadisticas =
             [@ EXCEPT !.vehiculos_activos = 0,
                       !.vehiculos_generados = s.vehiculos_generados,
                       !.promedio_velocidad = 0, !.congestion = 0]]
    ELSE CHOOSE res \in
             { [s EXCEPT
                  !.estadisticas =
                      estadisticas_de(
                          [@ EXCEPT !.vehiculos_activos = Len(s.vehiculos),
                                    !.vehiculos_generados = s.vehiculos_generados],
                          s.vehiculos),
                  !.console_logger = z.cl,
                  !.narrador = z.n] :
               z \in { IF s.console_logger # Ninguno
                       THEN analizar_congestion_por_zonas(
                                [cl |-> s.console_logger, n |-> s.narrador],
                                s.vehiculos, 1, t)
                       ELSE [cl |-> s.console_logger, n |-> s.narrador] } } :
             TRUE

\* lines 216-218 of _actualizar_simulacion
avanzar_hora(s) ==
    [s EXCEPT !.hora_simulada = IF @ + 1 >= 24000 THEN 0 ELSE @ + 1]

\* lines 221-223 of _actualizar_simulacion: intenta is the outcome of
\* random.random() < 0.4
generar_automatico(s, t, intenta, d) ==
    IF Len(s.vehiculos) < config.max_vehiculos /\ intenta
    THEN generar_vehiculo_inteligente(s, t, d)
    ELSE s

\* a faulty variant of lines 226-241: the vehicles are updated against the
\* lights as the tick found them
actualizar_entidades_luces_viejas(s, t, paradas) ==
    CHOOSE res \in
        { actualizar_estadisticas_generales(s3, t) :
          s3 \in { eliminar_vehiculos(s2, lv, t) :
                   s2 \in {actualizar_semaforos(s, t)},
                   lv \in { actualizar_vehiculos(
                                [vehiculos |-> s.vehiculos, evs |-> <<>>,
                                 a_eliminar |-> <<>>],
                                1, s.semaforos, t, paradas) } } } : TRUE

\* lines 226-241 of _actualizar_simulacion
actualizar_entidades(s, t, paradas) ==
    CHOOSE res \in
        { actualizar_estadisticas_generales(s3, t) :
          s3 \in { eliminar_vehiculos(s2, lv, t) :
                   s2 \in {actualizar_semaforos(s, t)},
                   lv \in { actualizar_vehiculos(
                                [vehiculos |-> s.vehiculos, evs |-> <<>>,
                                 a_eliminar |-> <<>>],
                                1,
                                [i \in 1..Len(s.semaforos) |->
                                    SemaforoActualizar(s.semaforos[i], t)],
                                t, paradas) } } } : TRUE

\* lines 220-241 of _actualizar_simulacion, the tick after the hour was
\* advanced: the spawner, the lights, the vehicles, the removals and the
\* statistics
generar_y_actualizar(s, t, intenta, d, paradas) ==
    CHOOSE res \in
        { IF s2.error # "" THEN s2 ELSE actualizar_entidades(s2, t, paradas) :
          s2 \in {generar_automatico(s, t, intenta, d)} } : TRUE

\* SimulacionTrafico._actualizar_simulacion at time t: d are the draws of the
\* spawner, paradas the draws of the vehicles; an exception raised by the
\* spawner leaves the method
actualizar_simulacion(s, t, intenta, d, paradas) ==
    CHOOSE res \in
        { IF s2.error # "" THEN s2 ELSE actualizar_entidades(s2, t, paradas) :
          s2 \in { generar_automatico(s1, t, intenta, d) :
                   s1 \in {avanzar_hora(s)} } } : TRUE

-----------------------------------------------------------------------------
(* SimulacionTrafico (src/src/simulacion.py): commands *)

\* a call self.narrador.agregar_mensaje(mensaje) that leaves out the required
\* argument tipo: Python raises TypeError before the body runs
agregar_mensaje_sin_tipo(s) ==
    IF s.narrador # Ninguno THEN [s EXCEPT !.error = "TypeError"] ELSE s

\* a faulty variant of the restart: the vehicles go, the statistics stay
vaciar_simulacion_sin_reset(s) ==
    [s EXCEPT !.vehiculos = <<>>,
              !.vehiculos_generados = 0,
              !.hora_simulada = config.hora_inicial]

\* lines 343-346 of _reiniciar_simulacion
vaciar_simulacion(s) ==
    [s EXCEPT !.vehiculos = <<>>,
              !.vehiculos_generados = 0,
              !.estadisticas = reset(@),
              !.hora_simulada = config.hora_inicial]

\* SimulacionTrafico._reiniciar_simulacion at time t
reiniciar_simulacion(s, t) ==
    IF s.narrador # Ninguno
    THEN agregar_mensaje_sin_tipo(
             [vaciar_simulacion(s) EXCEPT !.narrador = reset_explicaciones(@)])
    ELSE IF s.console_logger # Ninguno
    THEN [vaciar_simulacion(s) EXCEPT !.console_logger = ConsoleLoggerNuevo(t)]
    ELSE vaciar_simulacion(s)

\* the keys _manejar_tecla knows; K_c and K_m change what is drawn only
Teclas == {"SPACE", "r", "t", "n", "c", "m", "p", "ESCAPE"}

\* SimulacionTrafico._manejar_tecla(tecla) at time t, d the draws of the spawner
manejar_tecla(s, tecla, t, d) ==
    IF tecla = "SPACE"
    THEN CHOOSE r \in
             { IF s1.error # "" THEN s1 ELSE agregar_mensaje_sin_tipo(s1) :
               s1 \in {generar_vehiculo_inteligente(s, t, d)} } : TRUE
    ELSE IF tecla = "r" THEN reiniciar_simulacion(s, t)
    ELSE IF tecla = "t"
    THEN agregar_mensaje_sin_tipo(
             [s EXCEPT !.hora_simulada = (@ + 2000) % 24000])
    ELSE IF tecla = "n" /\ s.narrador # Ninguno
    THEN [s EXCEPT !.narrador = alternar_activacion(@, t)]
    ELSE IF tecla = "c" THEN agregar_mensaje_sin_tipo(s)
    ELSE IF tecla = "m" THEN agregar_mensaje_sin_tipo(s)
    ELSE IF tecla = "p"
    THEN agregar_mensaje_sin_tipo([s EXCEPT !.pausado = ~@])
    ELSE IF tecla = "ESCAPE" THEN [s EXCEPT !.ejecutando = FALSE]
    ELSE s

\* SimulacionTrafico._manejar_eventos for one event of pygame.event.get()
manejar_evento(s, evento, t, d) ==
    IF evento = "QUIT" THEN [s EXCEPT !.ejecutando = FALSE]
    ELSE manejar_tecla(s, evento, t, d)

\* SimulacionTrafico.pausar
pausar(s) == [s EXCEPT !.pausado = TRUE]

\* SimulacionTrafico.reanudar
reanudar(s) == [s EXCEPT !.pausado = FALSE]

\* SimulacionTrafico.cambiar_hora(nueva_hora): the driver afterwards and the
\* value returned
cambiar_hora(s, nueva_hora) ==
    IF 0 <= nueva_hora /\ nueva_hora < 24000
    THEN [s |-> [s EXCEPT !.hora_simulada = nueva_hora], devuelve |-> TRUE]
    ELSE [s |-> s, devuelve |-> FALSE]

\* a faulty variant of the update of an iteration: the tick is issued whether
\* the simulation is paused or not
actualizar_aunque_pausado(s, t, intenta, d, paradas) ==
    actualizar_simulacion(s, t, intenta, d, paradas)

\* lines 436-437 of ejecutar: the update of an iteration of the main loop
actualizar_si_no_pausado(s, t, intenta, d, paradas) ==
    IF s.pausado THEN s ELSE actualizar_simulacion(s, t, intenta, d, paradas)

-----------------------------------------------------------------------------
(* SimulacionTrafico (src/src/simulacion.py): the thread of the reports *)

\* the thread before ejecutar starts it: pc is where it is, vehiculos_activos
\* and hora_sim the arguments it has evaluated, despierta the time its sleep
\* ends, usados the values its last report was made of
HiloSinIniciar ==
    [pc |-> "sin iniciar", vehiculos_activos |-> 0, hora_sim |-> 0,
     despierta |-> 0, usados |-> Ninguno]

\* SimulacionTrafico._iniciar_hilo_reportes: the thread starts at the test of
\* its loop
iniciar_hilo_reportes(h) ==
    IF config.logging_detallado THEN [h EXCEPT !.pc = "evalua"] ELSE h

\* the values a report is made of: the statistics the console logger reads
\* from estadisticas.__dict__, and the two other arguments
Instantanea(e, activos, hora) ==
    [autos |-> e.autos, combis |-> e.combis, motos |-> e.motos,
     taxis |-> e.taxis, promedio_velocidad |-> e.promedio_velocidad,
     congestion |-> e.congestion, vehiculos_activos |-> e.vehiculos_activos,
     activos |-> activos, hora |-> hora]

\* NarradorSistema.analizar_vehiculos(cantidad, velocidad_promedio)
analizar_vehiculos(n, cantidad, velocidad_promedio, t) ==
    CHOOSE r \in
        { IF velocidad_promedio > 250
             /\ "velocidad_optima" \notin n1.explicaciones_mostradas
          THEN [agregar_mensaje(n1, t) EXCEPT
                   !.explicaciones_mostradas = @ \cup {"velocidad_optima"}]
          ELSE n1 :
          n1 \in { IF cantidad > 80
                      /\ "alta_densidad" \notin n.explicaciones_mostradas
                   THEN [agregar_mensaje(n, t) EXCEPT
                            !.explicaciones_mostradas = @ \cup {"alta_densidad"}]
                   ELSE n } } : TRUE

\* ConsoleLogger._analizar_para_narrador: the narrator afterwards.  The
\* history holds fewer than three entries as long as the thread is followed,
\* so that _analizar_tendencias is not entered.  The congestion a list of at
\* most three vehicles has is a whole number of percent or a third of one.
analizar_para_narrador(n, e, vehiculos_activos, t) ==
    analizar_congestion(
        analizar_vehiculos(n, vehiculos_activos, e.promedio_velocidad, t),
        e.congestion \div 100, t)

\* ConsoleLogger.reporte_periodico(estadisticas, vehiculos_activos, hora_sim)
\* at time t: the logger (cl) and the narrator (n) afterwards, and whether a
\* report was made; e is what estadisticas.__dict__ holds while it runs
reporte_periodico(cl, n, e, vehiculos_activos, t) ==
    IF t - cl.ultimo_reporte >= 15
    THEN [cl |-> [cl EXCEPT !.estadisticas_historial = Min(@ + 1, 50),
                            !.ultimo_reporte = t],
          n |-> analizar_para_narrador(n, e, vehiculos_activos, t),
          reporto |-> TRUE]
    ELSE [cl |-> cl, n |-> n, reporto |-> FALSE]

-----------------------------------------------------------------------------
(* Construction: SimulacionTrafico.__init__ *)

\* Punto(x, y), coordinates in hundredths
Punto(x, y) == [x |-> x, y |-> y]

\* Calle(inicio, fin, ancho, tipo, direccion, velocidad_maxima); the field
\* direccion (DireccionCalle) is used for drawing only
Calle(inicio, fin, ancho, tipo, velocidad_maxima) ==
    [inicio |-> inicio, fin |-> fin, ancho |-> ancho, tipo |-> tipo,
     velocidad_maxima |-> velocidad_maxima]

\* ConfiguracionSimulacion(...) with the defaults of the fields not given
ConfiguracionSimulacion(max_vehiculos, hora_inicial, narrador_activo) ==
    [ancho_pantalla |-> 1600, alto_pantalla |-> 1000, fps |-> 60,
     max_vehiculos |-> max_vehiculos, hora_inicial |-> hora_inicial,
     narrador_activo |-> narrador_activo, logging_detallado |-> TRUE]

\* the random draws of one Semaforo.__init__: the shortest durations of the
\* category and the given first deadline
SorteoSemaforo(tipo, primero) ==
    [verde |-> IF tipo = "principal" THEN 8 ELSE 5,
     rojo |-> IF tipo = "principal" THEN 6 ELSE 4,
     primero |-> primero]

\* SimulacionTrafico._crear_semaforos: one light per intersection of the map,
\* in the order of the three lists; sl[i] are the draws of light i
crear_semaforos(m, con_logger, t, sl) ==
    [i \in 1..Len(m.intersecciones) |->
        SemaforoNuevo(m.intersecciones[i].posicion, m.intersecciones[i].tipo,
                      con_logger, t, sl[i].verde, sl[i].rojo, sl[i].primero)]

\* SimulacionTrafico.__init__(c) at time t on the map m: the driver's fields.
\* The message of _log_inicializacion comes less than 2 seconds after the
\* narrator was created and is dropped by agregar_mensaje.
SimulacionNueva(c, m, t, sl) ==
    [ semaforos |-> crear_semaforos(m, c.narrador_activo, t, sl),
      vehiculos |-> <<>>,
      estadisticas |-> EstadisticasNuevas,
      hora_simulada |-> c.hora_inicial,
      vehiculos_generados |-> 0,
      tiempo_ultima_generacion |-> t,
      max_vehiculos_simultaneos |-> 0,
      ejecutando |-> FALSE, pausado |-> FALSE,
      narrador |-> IF c.narrador_activo
                   THEN agregar_mensaje(NarradorNuevo(t), t) ELSE Ninguno,
      console_logger |-> IF c.narrador_activo
                         THEN ConsoleLoggerNuevo(t) ELSE Ninguno,
      error |-> "", eventos |-> <<>>, sig_oid |-> 1, generado |-> "nada" ]

-----------------------------------------------------------------------------
(* The maps, configurations and random draws the model runs on *)

\* a small map, in hundredths: the avenue k1 ends where the cobbled street k2
\* starts, k2 ends within 50 units of both ends of k1, and the avenue k3 lies
\* more than 50 units from both; one light ahead of k1 and one ahead of k3
MapaModelo ==
    [ calles |-> << Calle(Punto(0, 0), Punto(10, 0), 20, "principal", 300),
                    Calle(Punto(10, 0), Punto(10, 10), 8, "empedrada", 150),
                    Calle(Punto(10000, 0), Punto(10010, 0), 20, "principal", 300) >>,
      edificios |-> 1, landmarks |-> 1,
      intersecciones |-> << [posicion |-> Punto(60, 0), tipo |-> "principal"],
                            [posicion |-> Punto(10040, 0), tipo |-> "normal"] >> ]

\* valid configurations: the narrator on in the morning with room for one or
\* two vehicles, and the narrator off shortly before midnight
Configuraciones ==
    { ConfiguracionSimulacion(1, 8000, TRUE),
      ConfiguracionSimulacion(2, 8000, TRUE),
      ConfiguracionSimulacion(2, 23995, FALSE) }

\* comportamiento['agresividad'] drawn for a vehicle of each kind, in percent
AgresividadMuestra ==
    [tipo \in Tipos |->
        CASE tipo = "AUTO" -> 50 [] tipo = "COMBI" -> 75
          [] tipo = "MOTO" -> 100 [] tipo = "TAXI" -> 50]

\* the draws of one call of _generar_vehiculo_inteligente, the draw of
\* random.choice among the kinds of the pattern being one of indices and the
\* draw of random.randint(1000, 9999) for the id one of numeros
SorteosCon(indices, numeros) ==
    [ intervalo_base : {1, 3}, tipo : indices,
      calle : IF calles_principales = {} THEN {0} ELSE calles_principales,
      progreso : {0}, variacion : {100}, agresividad : {AgresividadMuestra},
      numero : numeros, largo : {3}, sel : {[i \in 1..7 |-> 0]} ]

\* the draws the driver is followed with: the first two kinds of the pattern
\* and one number
Sorteos == SorteosCon({0, 1}, {1000})

\* the draws of an operation: those of the spawner when it is called
SorteosSi(llamado) ==
    IF llamado THEN Sorteos ELSE {CHOOSE d \in Sorteos : TRUE}

\* the draws of _aplicar_comportamiento_especial for the vehicles of a tick,
\* by position in the list: 0 when random.random() is not below 0.001, which
\* is all a vehicle that is no COMBI ever asks for
Paradas(lista) ==
    { f \in [1..(Len(lista) + 1) -> {0}] :
        \A i \in 1..(Len(lista) + 1) :
            f[i] # 0 => i <= Len(lista) /\ lista[i].tipo = "COMBI" }

-----------------------------------------------------------------------------
(* The state machine *)

\* the driver's fields s become the next state
Instalar(s) ==
    /\ semaforos' = s.semaforos
    /\ vehiculos' = s.vehiculos
    /\ estadisticas' = s.estadisticas
    /\ hora_simulada' = s.hora_simulada
    /\ vehiculos_generados' = s.vehiculos_generados
    /\ tiempo_ultima_generacion' = s.tiempo_ultima_generacion
    /\ max_vehiculos_simultaneos' = s.max_vehiculos_simultaneos
    /\ ejecutando' = s.ejecutando
    /\ pausado' = s.pausado
    /\ narrador' = s.narrador
    /\ console_logger' = s.console_logger
    /\ error' = s.error
    /\ eventos' = s.eventos
    /\ sig_oid' = s.sig_oid

\* the driver's fields s are the present state
Instalado(s) ==
    /\ semaforos = s.semaforos
    /\ vehiculos = s.vehiculos
    /\ estadisticas = s.estadisticas
    /\ hora_simulada = s.hora_simulada
    /\ vehiculos_generados = s.vehiculos_generados
    /\ tiempo_ultima_generacion = s.tiempo_ultima_generacion
    /\ max_vehiculos_simultaneos = s.max_vehiculos_simultaneos
    /\ ejecutando = s.ejecutando
    /\ pausado = s.pausado
    /\ narrador = s.narrador
    /\ console_logger = s.console_logger
    /\ error = s.error
    /\ eventos = s.eventos
    /\ sig_oid = s.sig_oid

\* what ultimo records of an operation
Operacion(op, arg, s) ==
    [op |-> op, arg |-> arg, generado |-> s.generado]

\* the state after SimulacionTrafico(config) on the model map
Init ==
    /\ now = 0
    /\ config \in Configuraciones
    /\ mapa = MapaModelo
    /\ Instalado(SimulacionNueva(config, mapa, 0,
                  [i \in 1..Len(mapa.intersecciones) |->
                      SorteoSemaforo(mapa.intersecciones[i].tipo, 5)]))
    /\ ultimo = [op |-> "__init__", arg |-> "", generado |-> "nada"]
    /\ fase = "listo"
    /\ ticks = 0
    /\ teclas = 0
    /\ hilo_reporte = HiloSinIniciar
    /\ completados = {}

\* time.time() advances by a second between two operations
PasaTiempo ==
    /\ fase \in {"listo", "bucle"}
    /\ now < MaxTime
    /\ now' = now + 1
    /\ eventos' = <<>>
    /\ ultimo' = [op |-> "tiempo", arg |-> "", generado |-> "nada"]
    /\ UNCHANGED << hilo_reporte, completados >>
    /\ UNCHANGED << config, mapa, semaforos, vehiculos, estadisticas,
                    hora_simulada, vehiculos_generados,
                    tiempo_ultima_generacion, max_vehiculos_simultaneos,
                    ejecutando, pausado, narrador, console_logger, error,
                    fase, sig_oid, ticks, teclas >>

\* SimulacionTrafico.ejecutar up to the first test of the main loop
Ejecutar ==
    /\ fase = "listo"
    /\ fase' = "bucle"
    /\ ejecutando' = TRUE
    /\ eventos' = <<>>
    /\ ultimo' = [op |-> "ejecutar", arg |-> "", generado |-> "nada"]
    /\ hilo_reporte' = iniciar_hilo_reportes(hilo_reporte)
    /\ UNCHANGED completados
    /\ UNCHANGED << now, config, mapa, semaforos, vehiculos, estadisticas,
                    hora_simulada, vehiculos_generados,
                    tiempo_ultima_generacion, max_vehiculos_simultaneos,
                    pausado, narrador, console_logger, error, sig_oid, ticks,
                    teclas >>

\* one event of _manejar_eventos in the main loop: a key or pygame.QUIT; an
\* exception leaves ejecutar
ManejarEvento ==
    /\ fase = "bucle"
    /\ teclas < MaxTeclas
    /\ \E evento \in Teclas \cup {"QUIT"} :
        /\ evento = "SPACE" => sig_oid <= MaxGenerados
        /\ \E d \in SorteosSi(evento = "SPACE") :
          \E s \in {manejar_evento(Sim, evento, now, d)} :
              /\ Instalar(s)
              /\ ultimo' = Operacion("evento", evento, s)
              /\ fase' = IF s.error # "" THEN "terminado" ELSE "bucle"
    /\ teclas' = teclas + 1
    /\ UNCHANGED << hilo_reporte, completados >>
    /\ UNCHANGED << now, config, mapa, ticks >>

\* the rest of an iteration of the main loop once the events are handled:
\* the tick unless paused, the drawing, and the test of the loop
IteracionCon(sorteos) ==
    /\ fase = "bucle"
    /\ ticks < MaxTicks
    /\ \E intenta \in BOOLEAN, paradas \in Paradas(vehiculos) :
        /\ intenta => sig_oid <= MaxGenerados
        /\ \E d \in IF ~pausado /\ intenta
                       /\ Len(vehiculos) < config.max_vehiculos
                    THEN sorteos ELSE SorteosSi(FALSE) :
          \E s \in {actualizar_si_no_pausado(Sim, now, intenta, d, paradas)} :
              /\ Instalar(s)
              /\ ultimo' = Operacion(IF pausado THEN "pausa" ELSE "tick",
                                      "", s)
              /\ fase' = IF s.error # "" \/ ~s.ejecutando
                         THEN "terminado" ELSE "bucle"
    /\ ticks' = ticks + 1
    /\ UNCHANGED << hilo_reporte, completados >>
    /\ UNCHANGED << now, config, mapa, teclas >>

Iteracion == IteracionCon(Sorteos)

\* SimulacionTrafico.pausar(), called by the program that built the
\* simulation: before ejecutar, or from another of its threads during the
\* main loop, where it counts as a command
Pausar ==
    /\ fase \in {"listo", "bucle"}
    /\ ~pausado
    /\ fase = "bucle" => teclas < MaxTeclas
    /\ teclas' = IF fase = "bucle" THEN teclas + 1 ELSE teclas
    /\ \E s \in {pausar(Sim)} :
          /\ Instalar(s)
          /\ ultimo' = Operacion("pausar", "", s)
    /\ UNCHANGED << hilo_reporte, completados >>
    /\ UNCHANGED << now, config, mapa, fase, ticks >>

\* SimulacionTrafico.reanudar(), called as pausar is
Reanudar ==
    /\ fase \in {"listo", "bucle"}
    /\ pausado
    /\ fase = "bucle" => teclas < MaxTeclas
    /\ teclas' = IF fase = "bucle" THEN teclas + 1 ELSE teclas
    /\ \E s \in {reanudar(Sim)} :
          /\ Instalar(s)
          /\ ultimo' = Operacion("reanudar", "", s)
    /\ UNCHANGED << hilo_reporte, completados >>
    /\ UNCHANGED << now, config, mapa, fase, ticks >>

Next ==
    \/ PasaTiempo
    \/ Ejecutar
    \/ ManejarEvento
    \/ Iteracion
    \/ Pausar
    \/ Reanudar

Spec == Init /\ [][Next]_vars

-----------------------------------------------------------------------------
(* A light alone: Semaforo(posicion, tipo, console_logger) and its ticks *)

\* the draws of random.uniform in Semaforo.__init__ and _configurar_tiempos:
\* the two ends of the range of each category and of the first deadline
SorteosSemaforo ==
    { d \in [tipo : {"principal", "normal"}, con_logger : BOOLEAN,
             verde : {5, 8, 15}, rojo : {4, 6, 12}, primero : {5, 12}] :
        /\ d.verde \in RangoVerde(d.tipo)
        /\ d.rojo \in RangoRojo(d.tipo) }

\* the driver's fields when nothing but the lists of entities matters: those
\* of a simulation built on the model map, with the given lights and vehicles
SimDePrueba(sems, lista) ==
    [SimulacionNueva(ConfiguracionSimulacion(2, 8000, TRUE), mapa, 0, <<>>)
        EXCEPT !.semaforos = sems, !.vehiculos = lista]

\* a light built at time 0
InitSemaforo ==
    /\ now = 0
    /\ config = ConfiguracionSimulacion(2, 8000, TRUE)
    /\ mapa = [MapaModelo EXCEPT !.intersecciones = <<>>]
    /\ \E d \in SorteosSemaforo :
          Instalado(SimDePrueba(
              <<SemaforoNuevo(Punto(60, 0), d.tipo, d.con_logger, 0,
                              d.verde, d.rojo, d.primero)>>, <<>>))
    /\ ultimo = [op |-> "Semaforo", arg |-> "", generado |-> "nada"]
    /\ fase = "prueba"
    /\ ticks = 0
    /\ teclas = 0
    /\ hilo_reporte = HiloSinIniciar
    /\ completados = {}

\* time.time() advances between two ticks of the light, by a frame or by
\* longer than any phase lasts
PasaTiempoSemaforo ==
    /\ fase = "prueba"
    /\ \E dt \in {1, 2, 16} :
          /\ now + dt <= MaxTimeSemaforo
          /\ now' = now + dt
    /\ eventos' = <<>>
    /\ ultimo' = [op |-> "tiempo", arg |-> "", generado |-> "nada"]
    /\ UNCHANGED << hilo_reporte, completados >>
    /\ UNCHANGED << config, mapa, semaforos, vehiculos, estadisticas,
                    hora_simulada, vehiculos_generados,
                    tiempo_ultima_generacion, max_vehiculos_simultaneos,
                    ejecutando, pausado, narrador, console_logger, error,
                    fase, sig_oid, ticks, teclas >>

\* Semaforo.actualizar of every light of the list, and what the console
\* logger does with the notifications
ActualizarSemaforo ==
    /\ fase = "prueba"
    /\ ultimo.op # "Semaforo.actualizar"
    /\ \E s \in {actualizar_semaforos(Sim, now)} :
          /\ Instalar(s)
          /\ ultimo' = Operacion("Semaforo.actualizar", "", s)
    /\ UNCHANGED << hilo_reporte, completados >>
    /\ UNCHANGED << now, config, mapa, fase, ticks, teclas >>

\* Semaforo.forzar_estado(nuevo_estado, duracion) of light i, and what the
\* console logger does with the notification (lines 108-112): the narrator
\* has no explanation for a state named "... (FORZADO)"
ForzarEstado ==
    /\ fase = "prueba"
    /\ teclas < MaxLlamadasSemaforo
    /\ \E i \in 1..Len(semaforos), e \in Estados, duracion \in {<<>>, <<0>>, <<7>>} :
          \E s \in { notificar(
                         [Sim EXCEPT !.semaforos[i] =
                             forzar_estado(@, e, duracion, now)],
                         IF semaforos[i].console_logger
                         THEN <<EventoSemaforo(e \o " (FORZADO)", i)>>
                         ELSE <<>>,
                         now) } :
              /\ Instalar(s)
              /\ ultimo' = [op |-> "Semaforo.forzar_estado", arg |-> e,
                            duracion |-> duracion, semaforo |-> i,
                            generado |-> "nada"]
    /\ teclas' = teclas + 1
    /\ UNCHANGED << hilo_reporte, completados >>
    /\ UNCHANGED << now, config, mapa, fase, ticks >>

\* Semaforo.ajustar_ciclo(factor) of light i
AjustarCiclo ==
    /\ fase = "prueba"
    /\ teclas < MaxLlamadasSemaforo
    /\ \E i \in 1..Len(semaforos), factor \in {1, 2} :
          \E s \in { [Sim EXCEPT !.semaforos[i] = ajustar_ciclo(@, factor)] } :
              /\ Instalar(s)
              /\ ultimo' = [op |-> "Semaforo.ajustar_ciclo", arg |-> "",
                            factor |-> factor, semaforo |-> i,
                            generado |-> "nada"]
    /\ teclas' = teclas + 1
    /\ UNCHANGED << hilo_reporte, completados >>
    /\ UNCHANGED << now, config, mapa, fase, ticks >>

NextSemaforo ==
    \/ PasaTiempoSemaforo
    \/ ActualizarSemaforo
    \/ ForzarEstado
    \/ AjustarCiclo

SpecSemaforo == InitSemaforo /\ [][NextSemaforo]_vars

-----------------------------------------------------------------------------
(* An encounter: the main loop running for ever on an avenue of two lanes   *)
(* 25 units apart that head in opposite directions, as the avenues of the   *)
(* map of Cusco do, without lights and with room for two vehicles.  A       *)
(* vehicle may be spawned, and the clock may advance by a second, in any of *)
(* the first MaxTicksEncuentro iterations.  The simulated hour, which only  *)
(* selects the pattern of the spawner and moves by 0.001 per tick, is kept  *)
(* at the hour of the start, 8.0.                                           *)

\* the lane k1 heads east and the lane k2 heads west; each starts within 50
\* units of the end of the other
MapaDeDosCarriles ==
    [ calles |-> << Calle(Punto(0, 0), Punto(LargoCarril * U, 0), 45,
                          "principal", 300),
                    Calle(Punto(LargoCarril * U, 25 * U), Punto(0, 25 * U), 45,
                          "principal", 300) >>,
      edificios |-> 1, landmarks |-> 1, intersecciones |-> <<>> ]

\* the driver three seconds after its construction, in the main loop
InitEncuentro ==
    /\ now = 3
    /\ mapa = MapaDeDosCarriles
    /\ config = ConfiguracionSimulacion(2, 8000, TRUE)
    /\ Instalado([SimulacionNueva(config, mapa, 0, <<>>)
                     EXCEPT !.ejecutando = TRUE])
    /\ ultimo = [op |-> "ejecutar", arg |-> "", generado |-> "nada",
                 antes |-> <<>>]
    /\ fase = "bucle"
    /\ ticks = 0
    /\ teclas = 0
    /\ hilo_reporte = iniciar_hilo_reportes(HiloSinIniciar)
    /\ completados = {}

\* time.time() advances by a second between two iterations
PasaTiempoEncuentro ==
    /\ fase = "bucle"
    /\ ticks < MaxTicksEncuentro
    /\ now < 4
    /\ now' = now + 1
    /\ eventos' = <<>>
    /\ ultimo' = [op |-> "tiempo", arg |-> "", generado |-> "nada",
                  antes |-> vehiculos]
    /\ UNCHANGED << hilo_reporte, completados >>
    /\ UNCHANGED << config, mapa, semaforos, vehiculos, estadisticas,
                    hora_simulada, vehiculos_generados,
                    tiempo_ultima_generacion, max_vehiculos_simultaneos,
                    ejecutando, pausado, narrador, console_logger, error,
                    fase, sig_oid, ticks, teclas >>

\* an iteration of the main loop of the encounter, the hour staying as it
\* is; random.random() may be
\* below 0.4 in the first MaxTicksEncuentro iterations while fewer than
\* MaxGenerados vehicles were created.  ultimo keeps the list as the tick
\* found it.
TickEncuentro ==
    /\ fase = "bucle"
    /\ \E intenta \in BOOLEAN, paradas \in Paradas(vehiculos) :
        /\ intenta => (sig_oid <= MaxGenerados /\ ticks < MaxTicksEncuentro)
        /\ \E d \in IF intenta THEN Sorteos ELSE SorteosSi(FALSE) :
          \E s \in {generar_y_actualizar(Sim, now, intenta, d, paradas)} :
              /\ Instalar(s)
              /\ ultimo' = [op |-> "tick", arg |-> "", generado |-> s.generado,
                            antes |-> vehiculos]
              /\ fase' = IF s.error # "" \/ ~s.ejecutando
                         THEN "terminado" ELSE "bucle"
    /\ ticks' = IF ticks < MaxTicksEncuentro THEN ticks + 1 ELSE ticks
    /\ UNCHANGED << hilo_reporte, completados >>
    /\ UNCHANGED << now, config, mapa, teclas >>

NextEncuentro ==
    \/ PasaTiempoEncuentro
    \/ TickEncuentro

\* the main loop keeps iterating
SpecEncuentro ==
    InitEncuentro /\ [][NextEncuentro]_vars /\ WF_vars(TickEncuentro)

-----------------------------------------------------------------------------
(* Two lights that are ticked for ever *)

\* the draws of a light of the given category built without a console logger
SorteosCiclo(tipo) ==
    { d \in SorteosSemaforo : d.tipo = tipo /\ ~d.con_logger }

\* a normal and a principal light built at time 0 without a console logger
\* (the default of Semaforo.__init__), so that cambios_estado, which counts
\* the notified changes only, stays 0
InitCiclo ==
    /\ now = 0
    /\ config = ConfiguracionSimulacion(2, 8000, TRUE)
    /\ mapa = [MapaModelo EXCEPT !.intersecciones = <<>>]
    /\ \E d1 \in SorteosCiclo("normal"), d2 \in SorteosCiclo("principal") :
          Instalado(SimDePrueba(
              << SemaforoNuevo(Punto(60, 0), d1.tipo, FALSE, 0,
                               d1.verde, d1.rojo, d1.primero),
                 SemaforoNuevo(Punto(0, 60), d2.tipo, FALSE, 0,
                               d2.verde, d2.rojo, d2.primero) >>, <<>>))
    /\ ultimo = [op |-> "Semaforo", arg |-> "", generado |-> "nada",
                 antes |-> <<>>]
    /\ fase = "prueba"
    /\ ticks = 0
    /\ teclas = 0
    /\ hilo_reporte = HiloSinIniciar
    /\ completados = {}

\* time.time() advances between two iterations of the loop over the lights,
\* by a frame or by longer than any phase lasts.  The code only compares the
\* clock with the deadlines and adds durations to the clock, so a reading
\* beyond MaxTimeCiclo is counted from a later origin: the clock and the
\* deadlines are all moved back by the old reading.
PasaTiempoCiclo ==
    /\ fase = "prueba"
    /\ ultimo.op # "tiempo"
    /\ \E dt \in {1, 2, 16} :
          IF now + dt <= MaxTimeCiclo
          THEN /\ now' = now + dt
               /\ semaforos' = semaforos
          ELSE /\ now' = dt
               /\ semaforos' =
                     [i \in 1..Len(semaforos) |->
                         [semaforos[i] EXCEPT !.tiempo_cambio = @ - now]]
    /\ eventos' = <<>>
    /\ ultimo' = [op |-> "tiempo", arg |-> "", generado |-> "nada",
                  antes |-> semaforos]
    /\ UNCHANGED << hilo_reporte, completados >>
    /\ UNCHANGED << config, mapa, vehiculos, estadisticas,
                    hora_simulada, vehiculos_generados,
                    tiempo_ultima_generacion, max_vehiculos_simultaneos,
                    ejecutando, pausado, narrador, console_logger, error,
                    fase, sig_oid, ticks, teclas >>

\* the loop over self.semaforos of an iteration (simulacion.py 226-227);
\* ultimo keeps the lights as the loop found them
ActualizarCiclo ==
    /\ fase = "prueba"
    /\ ultimo.op = "tiempo"
    /\ \E s \in {actualizar_semaforos(Sim, now)} :
          /\ Instalar(s)
          /\ ultimo' = [op |-> "Semaforo.actualizar", arg |-> "",
                        generado |-> "nada", antes |-> semaforos]
    /\ UNCHANGED << hilo_reporte, completados >>
    /\ UNCHANGED << now, config, mapa, fase, ticks, teclas >>

NextCiclo ==
    \/ PasaTiempoCiclo
    \/ ActualizarCiclo

\* the clock keeps advancing and the loop over the lights keeps being run
SpecCiclo ==
    /\ InitCiclo
    /\ [][NextCiclo]_vars
    /\ WF_vars(PasaTiempoCiclo)
    /\ WF_vars(ActualizarCiclo)

-----------------------------------------------------------------------------
(* A vehicle alone: Vehiculo.actualizar(otros_vehiculos, semaforos) *)

\* two long streets from the origin: an avenue heading east and a secondary
\* street heading north
MapaDePrueba ==
    [ calles |-> << Calle(Punto(0, 0), Punto(200 * U, 0), 20, "principal", 300),
                    Calle(Punto(0, 0), Punto(0, 200 * U), 12, "secundaria", 200) >>,
      edificios |-> 1, landmarks |-> 1, intersecciones |-> <<>> ]

\* the point a units ahead of p along the heading h and l units to its left
Desplazado(p, h, a, l) ==
    [ x |-> p.x + a * Cos(h) - l * Sin(h),
      y |-> p.y + a * Sin(h) + l * Cos(h) ]

\* a vehicle at the start of street c, as Vehiculo.__init__ and establecer_ruta
\* build it, with the speed, cursor and stop time of a later moment
VehiculoDePrueba(tipo, c, vel, ruta, indice, parada) ==
    [VehiculoNuevo(1, tipo, calles[c].inicio, c, ruta, 0, 100,
                   AgresividadMuestra[tipo], 1000)
        EXCEPT !.velocidad_actual = vel, !.indice_ruta = indice,
               !.tiempo_parada = parada]

\* the vehicles updated: both kinds of behaviour, both streets, standing or
\* moving, with an empty route (ruta = 0), a route under way (1) or a route
\* already exhausted (2), and in a passenger stop or not
VehiculosDePrueba ==
    { VehiculoDePrueba(d.tipo, d.calle, d.vel,
                       IF d.ruta = 0 THEN <<>> ELSE <<d.calle>>,
                       IF d.ruta = 2 THEN 1 ELSE 0, d.parada) :
      d \in { d \in [tipo : {"AUTO", "COMBI"}, calle : {1, 2}, vel : {0, 140},
                     ruta : 0..2, parada : {0, 2}] :
                d.parada > 0 => d.tipo = "COMBI" } }

\* another vehicle a units ahead and l units to the left of v, at speed vel
OtroDePrueba(v, oid, a, l, vel) ==
    [VehiculoNuevo(oid, "AUTO", Desplazado(v.posicion, v.direccion, a, l),
                   v.calle_actual, <<v.calle_actual>>, 0, 100, 50, 999 + oid)
        EXCEPT !.velocidad_actual = vel]

\* the other vehicles: none, or one on the line of the heading of v, ahead at
\* either side of 40 and of 60 units or behind; and vehicles off that line:
\* two within 45 degrees of which the second is the nearer, a nearer one
\* outside 45 degrees and a farther one inside, one at exactly 45 degrees and
\* one behind, one at the place of v and one ahead, and one to the right
OtrosDePrueba(v) ==
    {<<>>} \cup
    { << OtroDePrueba(v, 2, d.a, 0, d.vel) >> :
      d \in [a : {30 * U, 40 * U - 1, 40 * U, 60 * U - 1, 60 * U, -(30 * U)},
             vel : {0, 101, 200}] } \cup
    { << OtroDePrueba(v, 2, 50 * U, 0, 200), OtroDePrueba(v, 3, 30 * U, 20 * U, 0) >>,
      << OtroDePrueba(v, 2, 30 * U, 40 * U, 0), OtroDePrueba(v, 3, 55 * U, 0, 200) >>,
      << OtroDePrueba(v, 2, 30 * U, 30 * U, 0), OtroDePrueba(v, 3, -(10 * U), 0, 0) >>,
      << OtroDePrueba(v, 2, 0, 0, 0), OtroDePrueba(v, 3, 30 * U, 0, 200) >>,
      << OtroDePrueba(v, 2, 30 * U, -(20 * U), 101) >> }

\* a light at a units ahead and l units to the left of v
LuzDePrueba(v, a, l, estado) ==
    [SemaforoNuevo(Desplazado(v.posicion, v.direccion, a, l), "normal", TRUE,
                   0, 5, 4, 5) EXCEPT !.estado = estado]

\* the lights: none; one light in any state dead ahead at 80 and at 81 units,
\* off the axis inside and outside 80 units and 60 degrees, at the place of
\* the vehicle and behind it; and two lights of which the second one stops
LucesDePrueba(v) ==
    {<<>>} \cup
    { <<LuzDePrueba(v, d.p[1], d.p[2], d.estado)>> :
      d \in [p : { <<80 * U, 0>>, <<81 * U, 0>>, <<70 * U, 40 * U>>,
                   <<20 * U, 10 * U>>, <<10 * U, 20 * U>>, <<0, 0>>,
                   <<-(10 * U), 0>> },
             estado : Estados] } \cup
    { <<LuzDePrueba(v, 40 * U, 0, "VERDE"), LuzDePrueba(v, 80 * U, 0, "ROJO")>>,
      <<LuzDePrueba(v, 81 * U, 0, "ROJO"), LuzDePrueba(v, 20 * U, -(10 * U), "AMARILLO")>> }

\* a vehicle, the other vehicles and the lights it is updated against
InitVehiculo ==
    /\ now = 0
    /\ config = ConfiguracionSimulacion(2, 8000, TRUE)
    /\ mapa = MapaDePrueba
    /\ \E v \in VehiculosDePrueba :
         \E otros \in OtrosDePrueba(v), sems \in LucesDePrueba(v) :
            Instalado(SimDePrueba(sems, <<v>> \o otros))
    /\ ultimo = [op |-> "Vehiculo", arg |-> 0, devuelve |-> TRUE,
                 antes |-> Ninguno]
    /\ fase = "prueba"
    /\ ticks = 0
    /\ teclas = 0
    /\ hilo_reporte = HiloSinIniciar
    /\ completados = {}

\* the draws of _aplicar_comportamiento_especial in one update of v: 0 when
\* random.random() is not below 0.001, else the stop time drawn
ParadasDePrueba(v) == IF v.tipo = "COMBI" THEN {0, 60} ELSE {0}

\* one call vehiculos[1].actualizar(vehiculos, semaforos), and what the console
\* logger does with its notifications; ultimo keeps the vehicle as the call
\* found it (antes), the value returned (devuelve) and what
\* _encontrar_vehiculo_adelante returns for the vehicle in the list
\* (adelante: an index, 0 for None)
ActualizarVehiculo ==
    /\ fase = "prueba"
    /\ ticks < MaxPasos
    /\ \E parada \in ParadasDePrueba(vehiculos[1]) :
        \E r \in { VehiculoActualizar(vehiculos[1], vehiculos, semaforos, now,
                                      parada) } :
          \E s \in { notificar([Sim EXCEPT !.vehiculos =
                                   [vehiculos EXCEPT ![1] = r.v]],
                               r.evs, now) } :
              /\ Instalar(s)
              /\ ultimo' = [op |-> "Vehiculo.actualizar", arg |-> parada,
                            devuelve |-> r.vivo, antes |-> vehiculos[1],
                            adelante |->
                                encontrar_vehiculo_adelante(vehiculos[1],
                                                            vehiculos)]
    /\ ticks' = ticks + 1
    /\ UNCHANGED << hilo_reporte, completados >>
    /\ UNCHANGED << now, config, mapa, fase, teclas >>

NextVehiculo == ActualizarVehiculo

SpecVehiculo == InitVehiculo /\ [][NextVehiculo]_vars

-----------------------------------------------------------------------------
(* Construction from any configuration and any map: SimulacionTrafico(config) *)

\* the fields of a driver that is not built yet
SimSinConstruir ==
    [ semaforos |-> <<>>, vehiculos |-> <<>>,
      estadisticas |-> EstadisticasNuevas, hora_simulada |-> 0,
      vehiculos_generados |-> 0, tiempo_ultima_generacion |-> 0,
      max_vehiculos_simultaneos |-> 0, ejecutando |-> FALSE,
      pausado |-> FALSE, narrador |-> Ninguno, console_logger |-> Ninguno,
      error |-> "", eventos |-> <<>>, sig_oid |-> 1, generado |-> "nada" ]

\* configurations a caller may hand to SimulacionTrafico: a valid one, and
\* one for each way validar fails (no room for a vehicle, an hour outside
\* [0, 24), an empty screen, no frame rate)
ConfiguracionesPosibles ==
    { ConfiguracionSimulacion(1, 8000, FALSE),
      ConfiguracionSimulacion(0, 8000, TRUE),
      ConfiguracionSimulacion(-1, 8000, TRUE),
      ConfiguracionSimulacion(1, 24000, TRUE),
      ConfiguracionSimulacion(1, -1000, FALSE),
      [ConfiguracionSimulacion(1, 8000, FALSE) EXCEPT !.ancho_pantalla = 0],
      [ConfiguracionSimulacion(1, 8000, FALSE) EXCEPT !.alto_pantalla = 0],
      [ConfiguracionSimulacion(1, 8000, FALSE) EXCEPT !.fps = 0] }

\* maps generar_mapa_completo could hand to __init__ that are not valid: no
\* street, no street a vehicle may start on, and a street without width,
\* without speed limit or without length
MapasInvalidos ==
    { [MapaModelo EXCEPT !.calles = <<>>],
      [MapaModelo EXCEPT !.calles = <<MapaModelo.calles[2]>>],
      [MapaModelo EXCEPT !.calles[1].ancho = 0],
      [MapaModelo EXCEPT !.calles[3].velocidad_maxima = 0],
      [MapaModelo EXCEPT !.calles[3].fin = MapaModelo.calles[3].inicio] }

\* the configuration and the map of a construction
Entradas ==
    (ConfiguracionesPosibles \X {MapaModelo})
    \cup ({ConfiguracionSimulacion(1, 8000, TRUE)} \X MapasInvalidos)

\* before SimulacionTrafico(config) is called
InitConstruccion ==
    /\ now = 0
    /\ \E e \in Entradas : config = e[1] /\ mapa = e[2]
    /\ Instalado(SimSinConstruir)
    /\ ultimo = [op |-> "", arg |-> "", generado |-> "nada"]
    /\ fase = "nuevo"
    /\ ticks = 0
    /\ teclas = 0
    /\ hilo_reporte = HiloSinIniciar
    /\ completados = {}

\* SimulacionTrafico.__init__(config): nothing in it looks at validar() or at
\* validar_mapa()
Construir ==
    /\ fase = "nuevo"
    /\ \E s \in { SimulacionNueva(config, mapa, now,
                      [i \in 1..Len(mapa.intersecciones) |->
                          SorteoSemaforo(mapa.intersecciones[i].tipo, 5)]) } :
          /\ Instalar(s)
          /\ ultimo' = Operacion("__init__", "", s)
    /\ fase' = "listo"
    /\ UNCHANGED << hilo_reporte, completados >>
    /\ UNCHANGED << now, config, mapa, ticks, teclas >>

\* SimulacionTrafico.cambiar_hora(nueva_hora), called by the program that
\* built the simulation; it counts as a command
CambiarHora ==
    /\ fase \in {"listo", "bucle"}
    /\ teclas < MaxTeclas
    /\ \E nueva_hora \in {-1, 23999, 24000} :
          \E r \in {cambiar_hora(Sim, nueva_hora)} :
              /\ Instalar(r.s)
              /\ ultimo' = [op |-> "cambiar_hora", arg |-> "",
                            nueva_hora |-> nueva_hora, devuelve |-> r.devuelve,
                            generado |-> "nada"]
    /\ teclas' = teclas + 1
    /\ UNCHANGED << hilo_reporte, completados >>
    /\ UNCHANGED << now, config, mapa, fase, ticks >>

NextConstruccion ==
    \/ Construir
    \/ PasaTiempo
    \/ Ejecutar
    \/ ManejarEvento
    \/ Iteracion
    \/ CambiarHora

SpecConstruccion == InitConstruccion /\ [][NextConstruccion]_vars

-----------------------------------------------------------------------------
(* The main loop and the thread of the reports side by side.  The thread    *)
(* runs between any two statements of the main thread; a tick is followed   *)
(* in two steps, before and after the loop over the lights, and the thread  *)
(* in the steps that evaluate the arguments of reporte_periodico and the    *)
(* step that runs it.  Spec leaves the thread out: a report is not made     *)
(* before 15 seconds have passed, and Spec follows MaxTime seconds.         *)

\* a simulation built at time 0 with the narrator on, and ejecutar up to the
\* first test of the main loop
InitReportes ==
    /\ now = 0
    /\ config = ConfiguracionSimulacion(2, 8000, TRUE)
    /\ mapa = MapaModelo
    /\ \E s \in { SimulacionNueva(config, mapa, 0,
                      [i \in 1..Len(mapa.intersecciones) |->
                          SorteoSemaforo(mapa.intersecciones[i].tipo, 5)]) } :
          /\ Instalado([s EXCEPT !.ejecutando = TRUE])
          /\ completados =
                 {Instantanea(s.estadisticas, Len(s.vehiculos), s.hora_simulada)}
    /\ ultimo = [op |-> "ejecutar", arg |-> "", generado |-> "nada"]
    /\ fase = "bucle"
    /\ ticks = 0
    /\ teclas = 0
    /\ hilo_reporte = iniciar_hilo_reportes(HiloSinIniciar)

\* time.time() advances by the time the thread sleeps
PasaTiempoReportes ==
    /\ fase \in {"bucle", "tick"}
    /\ now + 15 <= MaxTimeReportes
    /\ now' = now + 15
    /\ eventos' = <<>>
    /\ ultimo' = [op |-> "tiempo", arg |-> "", generado |-> "nada"]
    /\ UNCHANGED << hilo_reporte, completados >>
    /\ UNCHANGED << config, mapa, semaforos, vehiculos, estadisticas,
                    hora_simulada, vehiculos_generados,
                    tiempo_ultima_generacion, max_vehiculos_simultaneos,
                    ejecutando, pausado, narrador, console_logger, error,
                    fase, sig_oid, ticks, teclas >>

\* lines 216-223 of _actualizar_simulacion in an iteration of the main loop
IniciarTick ==
    /\ fase = "bucle"
    /\ ~pausado
    /\ ticks < MaxTicksReportes
    /\ \E intenta \in BOOLEAN :
        /\ intenta => sig_oid <= MaxGenerados
        /\ \E d \in SorteosSi(intenta /\ Len(vehiculos) < config.max_vehiculos) :
          \E s1 \in {avanzar_hora(Sim)} :
            \E s \in {generar_automatico(s1, now, intenta, d)} :
              /\ Instalar(s)
              /\ ultimo' = Operacion("hora y generacion", "", s)
              /\ fase' = IF s.error # "" THEN "terminado" ELSE "tick"
    /\ UNCHANGED << hilo_reporte, completados >>
    /\ UNCHANGED << now, config, mapa, ticks, teclas >>

\* lines 226-241 of _actualizar_simulacion, and the rest of the iteration
TerminarTick ==
    /\ fase = "tick"
    /\ \E paradas \in Paradas(vehiculos) :
          \E s \in {actualizar_entidades(Sim, now, paradas)} :
              /\ Instalar(s)
              /\ ultimo' = Operacion("tick", "", s)
              /\ completados' = completados \cup
                     {Instantanea(s.estadisticas, Len(s.vehiculos),
                                  s.hora_simulada)}
    /\ fase' = "bucle"
    /\ ticks' = ticks + 1
    /\ UNCHANGED << now, config, mapa, teclas, hilo_reporte >>

\* the thread, lines 404-408: the test of the loop, the test of line 405 and
\* the first two arguments of the call, of which len(self.vehiculos) is a value
HiloEvalua ==
    /\ hilo_reporte.pc = "evalua"
    /\ hilo_reporte' =
           IF ~ejecutando THEN [hilo_reporte EXCEPT !.pc = "fin"]
           ELSE IF ~pausado /\ console_logger # Ninguno
           THEN [hilo_reporte EXCEPT !.pc = "lee hora",
                                     !.vehiculos_activos = Len(vehiculos),
                                     !.usados = Ninguno]
           ELSE [hilo_reporte EXCEPT !.pc = "duerme", !.despierta = now + 15,
                                     !.usados = Ninguno]
    /\ eventos' = <<>>
    /\ ultimo' = [op |-> "hilo: argumentos", arg |-> "", generado |-> "nada"]
    /\ UNCHANGED << now, config, mapa, semaforos, vehiculos, estadisticas,
                    hora_simulada, vehiculos_generados,
                    tiempo_ultima_generacion, max_vehiculos_simultaneos,
                    ejecutando, pausado, narrador, console_logger, error,
                    fase, sig_oid, ticks, teclas, completados >>

\* the thread, line 409: the third argument of the call
HiloLeeHora ==
    /\ hilo_reporte.pc = "lee hora"
    /\ hilo_reporte' = [hilo_reporte EXCEPT !.pc = "llama",
                                            !.hora_sim = hora_simulada]
    /\ eventos' = <<>>
    /\ ultimo' = [op |-> "hilo: argumentos", arg |-> "hora", generado |-> "nada"]
    /\ UNCHANGED << now, config, mapa, semaforos, vehiculos, estadisticas,
                    hora_simulada, vehiculos_generados,
                    tiempo_ultima_generacion, max_vehiculos_simultaneos,
                    ejecutando, pausado, narrador, console_logger, error,
                    fase, sig_oid, ticks, teclas, completados >>

\* the thread, lines 406-411: reporte_periodico runs on the statistics as
\* they are now, and the thread goes to sleep
HiloReporta ==
    /\ hilo_reporte.pc = "llama"
    /\ console_logger # Ninguno
    /\ \E r \in { reporte_periodico(console_logger, narrador, estadisticas,
                                     hilo_reporte.vehiculos_activos, now) } :
          /\ console_logger' = r.cl
          /\ narrador' = r.n
          /\ hilo_reporte' =
                 [hilo_reporte EXCEPT
                    !.pc = "duerme", !.despierta = now + 15,
                    !.usados = IF r.reporto
                               THEN Instantanea(estadisticas,
                                                hilo_reporte.vehiculos_activos,
                                                hilo_reporte.hora_sim)
                               ELSE Ninguno]
    /\ eventos' = <<>>
    /\ ultimo' = [op |-> "hilo: reporte_periodico", arg |-> "",
                  generado |-> "nada"]
    /\ UNCHANGED << now, config, mapa, semaforos, vehiculos, estadisticas,
                    hora_simulada, vehiculos_generados,
                    tiempo_ultima_generacion, max_vehiculos_simultaneos,
                    ejecutando, pausado, error, fase, sig_oid, ticks, teclas,
                    completados >>

\* the thread, line 411: time.sleep(15) returns
HiloDespierta ==
    /\ hilo_reporte.pc = "duerme"
    /\ now >= hilo_reporte.despierta
    /\ hilo_reporte' = [hilo_reporte EXCEPT !.pc = "evalua"]
    /\ eventos' = <<>>
    /\ ultimo' = [op |-> "hilo: despierta", arg |-> "", generado |-> "nada"]
    /\ UNCHANGED << now, config, mapa, semaforos, vehiculos, estadisticas,
                    hora_simulada, vehiculos_generados,
                    tiempo_ultima_generacion, max_vehiculos_simultaneos,
                    ejecutando, pausado, narrador, console_logger, error,
                    fase, sig_oid, ticks, teclas, completados >>

NextReportes ==
    \/ PasaTiempoReportes
    \/ IniciarTick
    \/ TerminarTick
    \/ HiloEvalua
    \/ HiloLeeHora
    \/ HiloReporta
    \/ HiloDespierta

SpecReportes == InitReportes /\ [][NextReportes]_vars

-----------------------------------------------------------------------------
(* Ticks of the main loop on a map with traffic: the simulation was built   *)
(* three seconds ago, vehicles at different speeds are on the two streets,  *)
(* the statistics are those of the last tick, and the simulated hour is     *)
(* about to enter a time-of-day pattern.                                    *)

\* a vehicle half way along street c, as Vehiculo.__init__ and
\* establecer_ruta build it, at the speed of a later moment
VehiculoEnMarcha(oid, tipo, c, vel) ==
    [VehiculoNuevo(oid, tipo, punto_en_progreso(calles[c], 50), c, <<c>>, 0,
                   100, AgresividadMuestra[tipo], 1000 + oid)
        EXCEPT !.velocidad_actual = vel]

\* the lists of vehicles: none; an AUTO on the avenue standing, about to stay
\* below and about to reach half its maximal speed of 2.50, or fast; and the
\* same with a COMBI on the side street, whose maximal speed is 1.44
Poblaciones ==
    {<<>>} \cup
    { <<VehiculoEnMarcha(1, "AUTO", 1, a)>> : a \in {0, 120, 121, 200} } \cup
    { <<VehiculoEnMarcha(1, "AUTO", 1, a), VehiculoEnMarcha(2, "COMBI", 2, c)>> :
      a \in {0, 120, 121, 200}, c \in {0, 65, 66} }

\* the simulated hours: the last thousandth of an hour of each pattern, and
\* the middle of the morning
HorasDePrueba == {5999, 8000, 11999, 17999, 21999, 23999}

\* the driver's fields after some ticks on the map of two streets
SimEnMarcha(hora, lista, congestion) ==
    [SimulacionNueva(ConfiguracionSimulacion(2, hora, TRUE), mapa, 0, <<>>)
        EXCEPT !.vehiculos = lista,
               !.ejecutando = TRUE,
               !.vehiculos_generados = Len(lista),
               !.max_vehiculos_simultaneos = Len(lista),
               !.sig_oid = Len(lista) + 1,
               !.estadisticas =
                   [@ EXCEPT !.autos = IF Len(lista) >= 1 THEN 1 ELSE 0,
                             !.combis = IF Len(lista) >= 2 THEN 1 ELSE 0,
                             !.vehiculos_activos = Len(lista),
                             !.vehiculos_generados = Len(lista),
                             !.congestion = congestion]]

\* the main loop at its test, three seconds after the simulation was built
InitTick ==
    /\ now = 3
    /\ mapa = MapaDePrueba
    /\ \E hora \in HorasDePrueba, lista \in Poblaciones,
          congestion \in {0, 10000} :
          /\ config = ConfiguracionSimulacion(2, hora, TRUE)
          /\ Instalado(SimEnMarcha(hora, lista, congestion))
    /\ ultimo = [op |-> "ejecutar", arg |-> "", generado |-> "nada"]
    /\ fase = "bucle"
    /\ ticks = 0
    /\ teclas = 0
    /\ hilo_reporte = iniciar_hilo_reportes(HiloSinIniciar)
    /\ completados = {}

\* an iteration of the main loop whose spawner may draw any kind of the
\* pattern of the hour and either of two numbers for the id
IteracionTodosLosTipos == IteracionCon(SorteosCon({0, 1, 2}, {1000, 1001}))

NextTick == IteracionTodosLosTipos

SpecTick == InitTick /\ [][NextTick]_vars

-----------------------------------------------------------------------------
(* A journey: the main loop running for ever on a map of one straight       *)
(* street without lights, with room for one vehicle, which has just been    *)
(* admitted at the start of the street.  A passenger stop may be drawn in  *)
(* any of the first MaxTicksViaje ticks.                                    *)

\* one avenue heading east, one unit long, and no intersection
MapaDeUnaCalle ==
    [ calles |-> << Calle(Punto(0, 0), Punto(U, 0), 20, "principal", 300) >>,
      edificios |-> 1, landmarks |-> 1, intersecciones |-> <<>> ]

\* the kinds of the vehicle that makes the journey
TiposDeViaje == {"AUTO", "COMBI", "MOTO"}

\* the driver three seconds after it admitted its first vehicle, of the kind
\* tipo, at the start of the street
SimDeViaje(tipo) ==
    [admitir_vehiculo(
         [SimulacionNueva(ConfiguracionSimulacion(1, 8000, TRUE), mapa, 0, <<>>)
             EXCEPT !.ejecutando = TRUE],
         VehiculoNuevo(1, tipo, punto_en_progreso(calles[1], 0), 1, <<1>>, 0,
                       100, AgresividadMuestra[tipo], 1000),
         0)
        EXCEPT !.eventos = <<>>, !.generado = "nada"]

InitViaje ==
    /\ now = 3
    /\ mapa = MapaDeUnaCalle
    /\ config = ConfiguracionSimulacion(1, 8000, TRUE)
    /\ \E tipo \in TiposDeViaje : Instalado(SimDeViaje(tipo))
    /\ ultimo = [op |-> "ejecutar", arg |-> "", generado |-> "nada",
                 antes |-> <<>>]
    /\ fase = "bucle"
    /\ ticks = 0
    /\ teclas = 0
    /\ hilo_reporte = iniciar_hilo_reportes(HiloSinIniciar)
    /\ completados = {}

\* the draws of _aplicar_comportamiento_especial in a tick of the journey,
\* one per vehicle of the list: a stop of 60 ticks may be drawn while fewer
\* than MaxTicksViaje ticks have been made.  The draw is there for a vehicle
\* of any kind; the code looks at it for a COMBI only.
ParadasDeViaje(lista) ==
    { f \in [1..(Len(lista) + 1) -> {0, 60}] :
        \A i \in 1..(Len(lista) + 1) :
            f[i] # 0 => /\ i <= Len(lista)
                        /\ ticks < MaxTicksViaje }

\* an iteration of the main loop of the journey in which random.random() is
\* not below 0.4, so that no other vehicle is spawned; ticks counts the
\* iterations up to MaxTicksViaje, and ultimo keeps the list as the tick
\* found it and the draws of the passenger stops
TickViaje ==
    /\ fase = "bucle"
    /\ \E intenta \in {FALSE}, paradas \in ParadasDeViaje(vehiculos) :
        \E d \in SorteosSi(FALSE) :
          \E s \in {actualizar_si_no_pausado(Sim, now, intenta, d, paradas)} :
              /\ Instalar(s)
              /\ ultimo' = [op |-> "tick", arg |-> "", generado |-> s.generado,
                            antes |-> vehiculos, paradas |-> paradas]
              /\ fase' = IF s.error # "" \/ ~s.ejecutando
                         THEN "terminado" ELSE "bucle"
    /\ ticks' = IF ticks < MaxTicksViaje THEN ticks + 1 ELSE ticks
    /\ UNCHANGED << hilo_reporte, completados >>
    /\ UNCHANGED << now, config, mapa, teclas >>

NextViaje == TickViaje

\* the loop never stops issuing ticks
SpecViaje == InitViaje /\ [][NextViaje]_vars /\ WF_vars(TickViaje)

-----------------------------------------------------------------------------
(* A vehicle along its route: the calls of Vehiculo.actualizar one vehicle  *)
(* gets, seconds or fractions of a second apart, from its creation at the   *)
(* start of the first avenue of the model map until its route is exhausted. *)
(* The vehicle is of a kind that makes no passenger stops.                  *)
(* ultimo keeps two histories: the sum of the speeds the vehicle had after  *)
(* the updates that returned True (suma), and the times of its              *)
(* notifications CAMBIO DE VIA (avisos).                                    *)

\* the streets of the model map, without intersections and so without lights
MapaDeRuta == [MapaModelo EXCEPT !.intersecciones = <<>>]

\* the vehicle as the spawner creates and routes it at time 0
VehiculoDeRuta(tipo) ==
    VehiculoNuevo(1, tipo, punto_en_progreso(calles[1], 0), 1,
                  generar_ruta_realista(1, 3, [i \in 1..7 |-> 0]), 0, 100,
                  AgresividadMuestra[tipo], 1000)

InitRuta ==
    /\ now = 0
    /\ config = ConfiguracionSimulacion(2, 8000, TRUE)
    /\ mapa = MapaDeRuta
    /\ \E tipo \in {"AUTO", "MOTO"} :
          Instalado(SimDePrueba(<<>>, <<VehiculoDeRuta(tipo)>>))
    /\ ultimo = [op |-> "Vehiculo", arg |-> 0, devuelve |-> TRUE,
                 antes |-> Ninguno, suma |-> 0, avisos |-> <<>>]
    /\ fase = "prueba"
    /\ ticks = 0
    /\ teclas = 0
    /\ hilo_reporte = HiloSinIniciar
    /\ completados = {}

\* time.time() advances between two updates of the vehicle
PasaTiempoRuta ==
    /\ fase = "prueba"
    /\ \E dt \in {1, 5} :
          /\ now + dt <= MaxTimeRuta
          /\ now' = now + dt
    /\ eventos' = <<>>
    /\ ultimo' = [ultimo EXCEPT !.op = "tiempo"]
    /\ UNCHANGED << hilo_reporte, completados >>
    /\ UNCHANGED << config, mapa, semaforos, vehiculos, estadisticas,
                    hora_simulada, vehiculos_generados,
                    tiempo_ultima_generacion, max_vehiculos_simultaneos,
                    ejecutando, pausado, narrador, console_logger, error,
                    fase, sig_oid, ticks, teclas >>

\* the notifications CAMBIO DE VIA among evs
AvisosCambioDeVia(evs) ==
    SelectSeq(evs, LAMBDA e : e.evento = "CAMBIO DE VIA (...)")

\* one call vehiculos[1].actualizar(vehiculos, semaforos), and what the console
\* logger does with its notifications
ActualizarEnRuta ==
    /\ fase = "prueba"
    /\ \E parada \in ParadasDePrueba(vehiculos[1]) :
        \E r \in { VehiculoActualizar(vehiculos[1], vehiculos, semaforos, now,
                                      parada) } :
          \E s \in { notificar([Sim EXCEPT !.vehiculos =
                                   [vehiculos EXCEPT ![1] = r.v]],
                               r.evs, now) } :
              /\ Instalar(s)
              /\ ultimo' = [op |-> "Vehiculo.actualizar", arg |-> parada,
                            devuelve |-> r.vivo, antes |-> vehiculos[1],
                            suma |-> IF r.vivo
                                     THEN ultimo.suma + r.v.velocidad_actual
                                     ELSE ultimo.suma,
                            avisos |-> ultimo.avisos \o
                                [k \in 1..Len(AvisosCambioDeVia(r.evs)) |-> now]]
    /\ UNCHANGED << hilo_reporte, completados >>
    /\ UNCHANGED << now, config, mapa, fase, ticks, teclas >>

NextRuta == PasaTiempoRuta \/ ActualizarEnRuta

SpecRuta == InitRuta /\ [][NextRuta]_vars

-----------------------------------------------------------------------------
(* The walk that makes a route: SimulacionTrafico._generar_ruta_realista    *)
(* from any street of a map, with any number of iterations and any choices  *)

\* six streets: from the end of the first avenue a street starts at that
\* point, another starts 30 units away and an avenue starts exactly 50 units
\* away; the second street and the fifth end at the same point; the third and
\* the fourth street lead nowhere, and the sixth is far from all others
MapaDeCaminata ==
    [ calles |->
        << Calle(Punto(0, 0), Punto(100 * U, 0), 20, "principal", 300),
           Calle(Punto(100 * U, 0), Punto(100 * U, 100 * U), 12, "secundaria", 200),
           Calle(Punto(100 * U, 30 * U), Punto(200 * U, 30 * U), 12, "secundaria", 200),
           Calle(Punto(150 * U, 0), Punto(250 * U, 0), 20, "principal", 300),
           Calle(Punto(0, 100 * U), Punto(100 * U, 100 * U), 20, "principal", 300),
           Calle(Punto(0, 250 * U), Punto(100 * U, 250 * U), 12, "secundaria", 200) >>,
      edificios |-> 1, landmarks |-> 1, intersecciones |-> <<>> ]

InitCaminata ==
    /\ now = 0
    /\ config = ConfiguracionSimulacion(2, 8000, TRUE)
    /\ mapa = MapaDeCaminata
    /\ Instalado(SimDePrueba(<<>>, <<>>))
    /\ ultimo = [op |-> "SimulacionTrafico", arg |-> 0, largo |-> 0,
                 sel |-> <<>>, ruta |-> <<>>]
    /\ fase = "prueba"
    /\ ticks = 0
    /\ teclas = 0
    /\ hilo_reporte = HiloSinIniciar
    /\ completados = {}

\* one call _generar_ruta_realista(calles[c]): largo is the draw of
\* random.randint(3, 7) and sel[i] that of random.choice in iteration i;
\* ultimo keeps the street, the draws and the route returned.  The function
\* reads the map only, so one call is followed from each state.
GenerarRuta ==
    /\ fase = "prueba"
    /\ ticks = 0
    /\ ticks' = 1
    /\ \E c \in 1..Len(calles), largo \in 3..7, sel \in [1..7 -> 0..1] :
          ultimo' = [op |-> "_generar_ruta_realista", arg |-> c,
                     largo |-> largo, sel |-> sel,
                     ruta |-> generar_ruta_realista(c, largo, sel)]
    /\ UNCHANGED << hilo_reporte, completados >>
    /\ UNCHANGED << now, config, mapa, semaforos, vehiculos, estadisticas,
                    hora_simulada, vehiculos_generados,
                    tiempo_ultima_generacion, max_vehiculos_simultaneos,
                    ejecutando, pausado, narrador, console_logger, error,
                    eventos, fase, sig_oid, teclas >>

NextCaminata == GenerarRuta

SpecCaminata == InitCaminata /\ [][NextCaminata]_vars

-----------------------------------------------------------------------------
(* Properties of the light and of the vehicle *)

\* the successor of each state in the cycle VERDE -> AMARILLO -> ROJO -> VERDE
CicloSemaforo ==
    { <<"VERDE", "AMARILLO">>, <<"AMARILLO", "ROJO">>, <<"ROJO", "VERDE">> }

\* C1: whenever a tick of a light (Semaforo.actualizar) changes its state, the
\* new state is the successor of the old one in the cycle VERDE -> AMARILLO ->
\* ROJO -> VERDE: one tick moves the light by at most one step and skips no
\* state, however long ago its deadline passed.
C1_CicloSemaforo ==
    [][ ultimo'.op = "Semaforo.actualizar" =>
          \A i \in 1..Len(semaforos) :
             \/ semaforos'[i].estado = semaforos[i].estado
             \/ <<semaforos[i].estado, semaforos'[i].estado>> \in CicloSemaforo
      ]_vars

\* a tick at which a light is back at VERDE after a full cycle: it has just
\* been given a green phase, later than any first deadline
C1_Witness ==
    /\ fase = "prueba"
    /\ ultimo.op = "Semaforo.actualizar"
    /\ now > 12
    /\ semaforos[1].estado = "VERDE"
    /\ semaforos[1].tiempo_cambio = now + semaforos[1].duracion_verde

\* the unit vector of the heading of a vehicle on street c of the map (the
\* streets of the maps are parallel to the axes)
Rumbo(c) ==
    [ x |-> IF calles[c].fin.x > calles[c].inicio.x THEN 1
            ELSE IF calles[c].fin.x < calles[c].inicio.x THEN -1 ELSE 0,
      y |-> IF calles[c].fin.y > calles[c].inicio.y THEN 1
            ELSE IF calles[c].fin.y < calles[c].inicio.y THEN -1 ELSE 0 ]

\* the scalar product of the heading on street c with the vector from p to q
Escalar(c, p, q) == Rumbo(c).x * (q.x - p.x) + Rumbo(c).y * (q.y - p.y)

\* the bearing from p to q is less than 60 degrees off the heading on street
\* c: the cosine of the angle between them exceeds 1/2.  The bearing of a
\* point seen from itself is 0 (math.atan2(0, 0)), the heading east.
Menos60Grados(c, p, q) ==
    IF p = q THEN Rumbo(c) = [x |-> 1, y |-> 0]
    ELSE /\ Escalar(c, p, q) > 0
         /\ 4 * Escalar(c, p, q) * Escalar(c, p, q) > Distancia2(p, q)

\* the light s is not VERDE, at most 80 units from the vehicle a and less than
\* 60 degrees off its heading
LuzDetiene(a, s) ==
    /\ s.estado # "VERDE"
    /\ Distancia2(a.posicion, s.posicion) <= (80 * U) * (80 * U)
    /\ Menos60Grados(a.calle_actual, a.posicion, s.posicion)

\* the last operation was an update of vehiculos[1] that got past the checks
\* of its route
ActualizoEnRuta ==
    /\ fase = "prueba"
    /\ ultimo.op = "Vehiculo.actualizar"
    /\ ultimo.antes.ruta # <<>>
    /\ ultimo.antes.indice_ruta < Len(ultimo.antes.ruta)

\* C2: an update gives the vehicle the target speed 0 if some light is not
\* VERDE, at most 80 units away and less than pi/3 off the heading; with no
\* such light, no other vehicle and no passenger stop the target is the
\* vehicle's maximal speed, which is positive.  So a RED light dead ahead stops
\* the vehicle at 80 units and not at 81, and a VERDE light never does.
C2_SemaforoDetiene ==
    ActualizoEnRuta =>
        /\ (\E i \in 1..Len(semaforos) : LuzDetiene(ultimo.antes, semaforos[i]))
              => vehiculos[1].velocidad_objetivo = 0
        /\ ( /\ \A i \in 1..Len(semaforos) :
                    ~LuzDetiene(ultimo.antes, semaforos[i])
             /\ Len(vehiculos) = 1
             /\ ultimo.arg = 0 /\ ultimo.antes.tiempo_parada = 0 )
              => /\ vehiculos[1].velocidad_objetivo = ultimo.antes.velocidad_maxima
                 /\ vehiculos[1].velocidad_objetivo > 0

\* a vehicle that was alone, 80 units from a ROJO light dead ahead, and whose
\* update set the target 0
C2_Witness ==
    /\ ActualizoEnRuta
    /\ Len(vehiculos) = 1 /\ Len(semaforos) = 1
    /\ ultimo.arg = 0 /\ ultimo.antes.tiempo_parada = 0
    /\ semaforos[1].estado = "ROJO"
    /\ Distancia2(ultimo.antes.posicion, semaforos[1].posicion)
          = (80 * U) * (80 * U)
    /\ Escalar(ultimo.antes.calle_actual, ultimo.antes.posicion,
               semaforos[1].posicion) = 80 * U
    /\ vehiculos[1].velocidad_objetivo = 0

\* vehiculos[2] is on the line of the heading of the vehicle a, ahead of it
JustoAdelante(a) ==
    /\ Len(vehiculos) = 2
    /\ Escalar(a.calle_actual, a.posicion, vehiculos[2].posicion) > 0
    /\ Escalar(a.calle_actual, a.posicion, vehiculos[2].posicion)
         * Escalar(a.calle_actual, a.posicion, vehiculos[2].posicion)
         = Distancia2(a.posicion, vehiculos[2].posicion)

\* C3: when the vehicle ahead is at distance d, the target speed the update
\* computes is at most 0.5 times the speed of the vehicle ahead if d < 40 and
\* at most 0.8 times that speed if 40 <= d < 60; if d >= 60 the vehicle ahead
\* does not limit it: with no light and no passenger stop the target is the
\* vehicle's maximal speed.
C3_VehiculoAdelante ==
    (ActualizoEnRuta /\ JustoAdelante(ultimo.antes)) =>
        /\ Distancia2(ultimo.antes.posicion, vehiculos[2].posicion)
              < (40 * U) * (40 * U)
           => 2 * vehiculos[1].velocidad_objetivo <= vehiculos[2].velocidad_actual
        /\ ( /\ Distancia2(ultimo.antes.posicion, vehiculos[2].posicion)
                   >= (40 * U) * (40 * U)
             /\ Distancia2(ultimo.antes.posicion, vehiculos[2].posicion)
                   < (60 * U) * (60 * U) )
           => 10 * vehiculos[1].velocidad_objetivo
                 <= 8 * vehiculos[2].velocidad_actual
        /\ ( /\ Distancia2(ultimo.antes.posicion, vehiculos[2].posicion)
                   >= (60 * U) * (60 * U)
             /\ semaforos = <<>>
             /\ ultimo.arg = 0 /\ ultimo.antes.tiempo_parada = 0 )
           => vehiculos[1].velocidad_objetivo = ultimo.antes.velocidad_maxima

\* a vehicle 30 units behind a slower moving one on the same heading, whose
\* update set the target to half the speed of the vehicle ahead
C3_Witness ==
    /\ ActualizoEnRuta
    /\ JustoAdelante(ultimo.antes)
    /\ semaforos = <<>>
    /\ Distancia2(ultimo.antes.posicion, vehiculos[2].posicion)
          = (30 * U) * (30 * U)
    /\ vehiculos[2].velocidad_actual = 200
    /\ vehiculos[1].velocidad_objetivo = 100
    /\ vehiculos[1].velocidad_objetivo < ultimo.antes.velocidad_maxima

\* C4: in every update, a vehicle slower than its target gets the speed
\* min(speed + 0.08 * aggressiveness, target), which does not exceed the
\* target; any other vehicle gets max(speed - 0.15, max(0, target)), which is
\* not above its old speed, not below the target and not below 0.
C4_IntegracionVelocidad ==
    ActualizoEnRuta =>
        IF ultimo.antes.velocidad_actual < vehiculos[1].velocidad_objetivo
        THEN /\ vehiculos[1].velocidad_actual
                  = Min(ultimo.antes.velocidad_actual
                            + (8 * ultimo.antes.agresividad) \div 100,
                        vehiculos[1].velocidad_objetivo)
             /\ vehiculos[1].velocidad_actual <= vehiculos[1].velocidad_objetivo
        ELSE /\ vehiculos[1].velocidad_actual
                  = Max(ultimo.antes.velocidad_actual - 15,
                        Max(0, vehiculos[1].velocidad_objetivo))
             /\ vehiculos[1].velocidad_actual <= ultimo.antes.velocidad_actual
             /\ vehiculos[1].velocidad_actual >= vehiculos[1].velocidad_objetivo
             /\ vehiculos[1].velocidad_actual >= 0

\* an accelerating vehicle whose new speed is its target although one more
\* step of acceleration lies above it
C4_Witness ==
    /\ ActualizoEnRuta
    /\ ultimo.antes.velocidad_actual < vehiculos[1].velocidad_objetivo
    /\ ultimo.antes.velocidad_actual + (8 * ultimo.antes.agresividad) \div 100
          > vehiculos[1].velocidad_objetivo
    /\ vehiculos[1].velocidad_actual = vehiculos[1].velocidad_objetivo

\* C7: an update of a vehicle whose route is empty or exhausted returns False,
\* notifies RUTA COMPLETADA once and nothing else, leaves every field of the
\* vehicle (position, speed, cursor, distance travelled) as it was and raises
\* no error.
C7_RutaVacia ==
    ( /\ fase = "prueba"
      /\ ultimo.op = "Vehiculo.actualizar"
      /\ \/ ultimo.antes.ruta = <<>>
         \/ ultimo.antes.indice_ruta >= Len(ultimo.antes.ruta) ) =>
        /\ ultimo.devuelve = FALSE
        /\ eventos = <<EventoVehiculo("RUTA COMPLETADA (...)", ultimo.antes)>>
        /\ vehiculos[1] = ultimo.antes
        /\ error = ""

\* a moving vehicle with an empty route after its first update
C7_Witness ==
    /\ fase = "prueba"
    /\ ultimo.op = "Vehiculo.actualizar"
    /\ ticks = 1
    /\ ultimo.antes.ruta = <<>>
    /\ ultimo.antes.velocidad_actual > 0
    /\ ultimo.devuelve = FALSE
    /\ vehiculos[1] = ultimo.antes

-----------------------------------------------------------------------------
(* Properties of the driver *)

\* the counters a spawn changes are as they were
ContadoresIntactos ==
    /\ vehiculos_generados' = vehiculos_generados
    /\ tiempo_ultima_generacion' = tiempo_ultima_generacion
    /\ max_vehiculos_simultaneos' = max_vehiculos_simultaneos
    /\ sig_oid' = sig_oid

\* less time has passed since the last spawn than the shortest gap the
\* pattern of the hour can draw (1.0 / factor)
AntesDelIntervalo ==
    (now - tiempo_ultima_generacion)
        * obtener_patron_horario_actual(hora_simulada).factor < 10

\* C5: once the simulation is built, the number of active vehicles never
\* exceeds config.max_vehiculos; a manual spawn made at or above the maximum
\* or before the gap has elapsed leaves the vehicles, the statistics and the
\* counters as they were, a tick at or above the maximum adds no vehicle, and
\* a tick whose spawn attempt is refused adds no vehicle and changes no
\* counter.
C5_Capacidad ==
    /\ [](fase # "nuevo" => Len(vehiculos) <= config.max_vehiculos)
    /\ [][ /\ ( /\ ultimo'.op = "evento" /\ ultimo'.arg = "SPACE"
                /\ \/ Len(vehiculos) >= config.max_vehiculos
                   \/ AntesDelIntervalo )
              => /\ vehiculos' = vehiculos
                 /\ estadisticas' = estadisticas
                 /\ ContadoresIntactos
           /\ ( /\ ultimo'.op = "tick"
                /\ \/ Len(vehiculos) >= config.max_vehiculos
                   \/ ultimo'.generado = "no" )
              => /\ Len(vehiculos') <= Len(vehiculos)
                 /\ \A j \in 1..Len(vehiculos') :
                       \E i \in 1..Len(vehiculos) :
                           vehiculos'[j].oid = vehiculos[i].oid
                 /\ ContadoresIntactos
       ]_vars

\* a simulation built with a negative maximum, which no number of vehicles
\* respects
C5_Witness ==
    /\ fase = "bucle"
    /\ config.max_vehiculos < 0
    /\ ultimo.op = "tick"
    /\ Len(vehiculos) > config.max_vehiculos

\* the notifications RUTA COMPLETADA of the vehicle v among evs
AvisosRutaCompletada(evs, v) ==
    { k \in 1..Len(evs) : evs[k] = EventoVehiculo("RUTA COMPLETADA (...)", v) }

\* C6: a tick that removes a vehicle from the active list (its route cursor
\* passed the last segment) has notified RUTA COMPLETADA for that vehicle
\* exactly once.
C6_RutaCompletadaNotificada ==
    [][ ultimo'.op = "tick" =>
          \A i \in 1..Len(vehiculos) :
             (\A j \in 1..Len(vehiculos') : vehiculos'[j].oid # vehiculos[i].oid)
                => Cardinality(AvisosRutaCompletada(eventos', vehiculos[i])) = 1
      ]_vars

\* a tick has left the simulation without the vehicle it had created earlier,
\* and notified nothing
C6_Witness ==
    /\ fase = "bucle"
    /\ ultimo.op = "tick"
    /\ vehiculos_generados = 1
    /\ vehiculos = <<>>
    /\ eventos = <<>>

\* C8: after any of the commands pause/resume (p), spawn one now (SPACE), set
\* the hour (t), toggle the narrator (n) and restart (r) no error has been
\* raised and the main loop is still running, with the narrator on or off.
C8_ComandosAceptados ==
    (ultimo.op = "evento" /\ ultimo.arg \in {"p", "SPACE", "t", "n", "r"}) =>
        /\ error = ""
        /\ ejecutando
        /\ fase = "bucle"

\* the pause key has toggled pausado and then left the main loop with a
\* TypeError, the narrator being on
C8_Witness ==
    /\ ultimo.op = "evento" /\ ultimo.arg = "p"
    /\ config.narrador_activo
    /\ pausado
    /\ error = "TypeError"
    /\ fase = "terminado"

\* C9: a configuration that validar() does not accept never yields a built
\* simulation: construction ends with an error and the simulation is never
\* ready to run or running.
C9_ConfiguracionRechazada ==
    (fase # "nuevo" /\ ~validar(config)) =>
        /\ error # ""
        /\ fase \notin {"listo", "bucle"}

\* a simulation built with the initial hour 24.0 is running, and its first
\* tick has replaced the hour by 0
C9_Witness ==
    /\ ~validar(config)
    /\ config.hora_inicial >= 24000
    /\ fase = "bucle"
    /\ ultimo.op = "tick"
    /\ hora_simulada < config.hora_inicial

\* the map has no street, no street a vehicle may start on, or a street whose
\* width, speed limit or length is not positive
MapaInvalido(m) ==
    \/ m.calles = <<>>
    \/ \A i \in 1..Len(m.calles) :
          m.calles[i].tipo \notin {"principal", "secundaria"}
    \/ \E i \in 1..Len(m.calles) :
          \/ m.calles[i].ancho <= 0
          \/ m.calles[i].velocidad_maxima <= 0
          \/ m.calles[i].inicio = m.calles[i].fin

-----------------------------------------------------------------------------
(* Properties of the thread of the reports *)

\* C11: the statistics, the number of active vehicles and the simulated hour
\* a report of the thread is made of are those of one completed tick (or of
\* the simulation as it was built): the thread never reports a mixture of
\* values of different ticks or of a tick under way.
C11_ReporteSinDesgarro ==
    [][ (ultimo'.op = "hilo: reporte_periodico"
         /\ hilo_reporte'.usados # Ninguno)
        => hilo_reporte'.usados \in completados ]_vars

\* a report was made while the main loop was in the middle of a tick that
\* had created a vehicle
C11_Witness ==
    /\ ultimo.op = "hilo: reporte_periodico"
    /\ hilo_reporte.usados # Ninguno
    /\ fase = "tick"
    /\ Len(vehiculos) > estadisticas.vehiculos_activos

\* C12: a step of the thread of the reports writes nothing the main thread
\* reads or writes: the statistics, the list of vehicles, the narrator (its
\* messages and the explanations it has shown) and the console logger (its
\* history) are after the step what they were before it.
C12_HiloSoloLee ==
    [][ (hilo_reporte' # hilo_reporte)
        => UNCHANGED << estadisticas, vehiculos, narrador, console_logger >> ]_vars

\* the thread has made a report: the history of the logger has an entry and
\* the narrator has noted the explanation of the free flow
C12_Witness ==
    /\ ultimo.op = "hilo: reporte_periodico"
    /\ hilo_reporte.usados # Ninguno
    /\ console_logger.estadisticas_historial = 1
    /\ "flujo_optimo" \in narrador.explicaciones_mostradas

-----------------------------------------------------------------------------
(* Properties of the commands *)

\* C13 as stated: while the simulation is paused, no step of the main loop
\* that runs to its end, the handling of input included, changes the
\* simulated hour, a light or the list of vehicles.
C13_PausaCongela ==
    [][ (fase = "bucle" /\ pausado /\ pausado' /\ fase' = "bucle")
        => UNCHANGED << hora_simulada, semaforos, vehiculos >> ]_vars

\* C13, amended: the update of an iteration that finds the simulation paused
\* issues no tick: it leaves the simulated hour, every light and every
\* vehicle (hence its position, speed and route cursor) as they were; the
\* commands handled by the same iteration still act.
C13_PausaSinTick ==
    [][ (fase = "bucle" /\ pausado /\ ticks' = ticks + 1)
        => UNCHANGED << hora_simulada, semaforos, vehiculos >> ]_vars

\* an iteration found the simulation paused with a vehicle on the map and a
\* light whose deadline had passed
C13_Witness ==
    /\ ultimo.op = "pausa"
    /\ pausado
    /\ vehiculos # <<>>
    /\ \E i \in 1..Len(semaforos) : now >= semaforos[i].tiempo_cambio

-----------------------------------------------------------------------------
(* Properties of the operations on a light *)

\* the notifications of light i among those the last operation delivered
AvisosSemaforo(evs, i) ==
    Cardinality({ k \in 1..Len(evs) :
                    evs[k].clase = "semaforo" /\ evs[k].oid = i })

\* C15: a call of actualizar or forzar_estado on a light that has a listener
\* delivers exactly one light-state-changed notification if it changed the
\* state of the light and none if it left the state as it was, so that the
\* notifications of a light count its transitions.
C15_UnaNotificacionPorCambio ==
    [][ ultimo'.op \in {"Semaforo.actualizar", "Semaforo.forzar_estado"}
        => \A i \in 1..Len(semaforos) :
              semaforos[i].console_logger
              => AvisosSemaforo(eventos', i)
                   = IF semaforos'[i].estado # semaforos[i].estado
                     THEN 1 ELSE 0 ]_vars

\* forzar_estado was called with the state the light was in, and the
\* listener was notified
C15_Witness ==
    /\ ultimo.op = "Semaforo.forzar_estado"
    /\ ultimo.arg = "VERDE"
    /\ semaforos[1].console_logger
    /\ semaforos[1].cambios_estado = 0
    /\ AvisosSemaforo(eventos, 1) = 1

\* C16: forzar_estado(estado, duracion) leaves the light in the given state
\* with the deadline now + duracion, duracion being the light's own duration
\* of that state when none is given; and a tick before the deadline of a
\* light does not change its state.
C16_ForzarEstado ==
    [][ /\ ultimo'.op = "Semaforo.forzar_estado"
           => \A i \in {ultimo'.semaforo} :
                 /\ semaforos'[i].estado = ultimo'.arg
                 /\ semaforos'[i].tiempo_cambio =
                        now + (IF ultimo'.duracion = <<>>
                               THEN duracion_de(semaforos[i], ultimo'.arg)
                               ELSE ultimo'.duracion[1])
                 /\ permitir_paso(semaforos'[i]) = (ultimo'.arg = "VERDE")
        /\ ultimo'.op = "Semaforo.actualizar"
           => \A i \in 1..Len(semaforos) :
                 now < semaforos[i].tiempo_cambio
                 => semaforos'[i].estado = semaforos[i].estado ]_vars

\* a light with a listener is ROJO without ever having notified a change, so
\* it was forced to ROJO, and the tick just made, before the deadline of its
\* own duration of ROJO, has left it so
C16_Witness ==
    /\ ultimo.op = "Semaforo.actualizar"
    /\ semaforos[1].console_logger
    /\ semaforos[1].estado = "ROJO"
    /\ semaforos[1].cambios_estado = 0
    /\ now > 0
    /\ now < semaforos[1].tiempo_cambio
    /\ \E t \in 0..now : semaforos[1].tiempo_cambio = t + semaforos[1].duracion_rojo

\* C17: the durations of VERDE and ROJO of every light lie in the range of
\* its category, the duration of AMARILLO is 3, and no operation on the light
\* changes any of the three.
C17_DuracionesFijas ==
    /\ [](\A i \in 1..Len(semaforos) :
             /\ semaforos[i].duracion_verde \in RangoVerde(semaforos[i].tipo)
             /\ semaforos[i].duracion_rojo \in RangoRojo(semaforos[i].tipo)
             /\ semaforos[i].duracion_amarillo = 3)
    /\ [][ \A i \in 1..Len(semaforos) :
              /\ semaforos'[i].duracion_verde = semaforos[i].duracion_verde
              /\ semaforos'[i].duracion_rojo = semaforos[i].duracion_rojo
              /\ semaforos'[i].duracion_amarillo = semaforos[i].duracion_amarillo
         ]_vars

\* ajustar_ciclo(2) was called on a light of a main avenue
C17_Witness ==
    /\ ultimo.op = "Semaforo.ajustar_ciclo"
    /\ ultimo.factor = 2
    /\ semaforos[1].tipo = "principal"
    /\ semaforos[1].duracion_verde > 15
    /\ semaforos[1].duracion_amarillo = 3

-----------------------------------------------------------------------------
(* Properties of the tick *)

\* the vehicles of a list that are below half their own maximal speed
Lentos(lista) ==
    { i \in 1..Len(lista) :
        2 * lista[i].velocidad_actual < lista[i].velocidad_maxima }

\* C18: after every tick the congestion is 100 times the number of active
\* vehicles below half their own maximal speed, divided by the number of
\* active vehicles (in hundredths of a percent), whatever it was before; with
\* no active vehicle the congestion and the mean speed are 0.
C18_Congestion ==
    [][ (ultimo'.op = "tick" /\ error' = "")
        => IF vehiculos' = <<>>
           THEN /\ estadisticas'.congestion = 0
                /\ estadisticas'.promedio_velocidad = 0
           ELSE estadisticas'.congestion
                  = (10000 * Cardinality(Lentos(vehiculos'))) \div Len(vehiculos')
      ]_vars

\* a tick has left one vehicle of two below half its maximal speed, the AUTO
\* having just reached half of its own, and the congestion at 50 percent
C18_Witness ==
    /\ ultimo.op = "tick"
    /\ Len(vehiculos) = 2
    /\ 2 * vehiculos[1].velocidad_actual = vehiculos[1].velocidad_maxima
    /\ Cardinality(Lentos(vehiculos)) = 1
    /\ estadisticas.congestion = 5000

\* C19: from construction on the simulated hour is in [0, 24): after
\* __init__, after every tick, after key T, after a restart and after
\* cambiar_hora, which returns False and leaves the hour as it was when it is
\* given a value outside [0, 24).
C19_HoraEnRango ==
    /\ [](fase # "nuevo" => 0 <= hora_simulada /\ hora_simulada < 24000)
    /\ [][ (ultimo'.op = "cambiar_hora"
            /\ ~(0 <= ultimo'.nueva_hora /\ ultimo'.nueva_hora < 24000))
           => ultimo'.devuelve = FALSE /\ hora_simulada' = hora_simulada ]_vars

\* cambiar_hora has rejected a value outside [0, 24) and left in place the
\* hour the simulation was built with, which is itself outside [0, 24)
C19_Witness ==
    /\ ultimo.op = "cambiar_hora"
    /\ ultimo.devuelve = FALSE
    /\ ultimo.nueva_hora = 24000
    /\ hora_simulada < 0

\* ---------------------------------------------------------------------
\* Properties of the spawner
\* ---------------------------------------------------------------------

\* the kinds a vehicle admitted at the hour may have
TiposPermitidos(hora) ==
    IF 6000 <= hora /\ hora < 18000 THEN {"AUTO", "COMBI", "TAXI"}
    ELSE IF 18000 <= hora /\ hora < 22000 THEN {"AUTO", "MOTO"}
    ELSE {"TAXI", "AUTO"}

\* the vehicles of the list after a step that were not in it before
Admitidos ==
    { i \in 1..Len(vehiculos') :
        \A j \in 1..Len(vehiculos) : vehiculos[j].oid # vehiculos'[i].oid }

\* C20: every vehicle a tick admits has a kind of the pattern selected by
\* the hour at the moment of the spawn (the hour the tick has just advanced
\* to): AUTO, COMBI or TAXI in [6, 18), AUTO or MOTO in [18, 22), TAXI or
\* AUTO otherwise; and a tick that reports a spawn admits exactly one.
C20_TipoDelPatron ==
    [][ /\ \A i \in Admitidos :
               vehiculos'[i].tipo \in TiposPermitidos(hora_simulada')
        /\ (ultimo'.op = "tick" /\ ultimo'.generado = "si")
               => Cardinality(Admitidos) = 1 ]_vars

\* a tick has taken the hour from 17.999 to 18 and admitted a MOTO
C20_Witness ==
    /\ ultimo.op = "tick"
    /\ ultimo.generado = "si"
    /\ hora_simulada = 18000
    /\ Len(vehiculos) > 0
    /\ vehiculos[Len(vehiculos)].oid = sig_oid - 1
    /\ vehiculos[Len(vehiculos)].tipo = "MOTO"

\* ---------------------------------------------------------------------
\* Properties of the vehicles of the driver
\* ---------------------------------------------------------------------

\* C21: in every reachable state no two vehicles of the active list have the
\* same id.
C21_IdUnico ==
    \A i, j \in 1..Len(vehiculos) :
        i # j => vehiculos[i].id # vehiculos[j].id

\* two vehicles that are different objects are in the list with the same id,
\* the second admitted by the last tick
C21_Witness ==
    /\ ultimo.op = "tick"
    /\ ultimo.generado = "si"
    /\ Len(vehiculos) = 2
    /\ vehiculos[1].oid # vehiculos[2].oid
    /\ vehiculos[1].id = vehiculos[2].id

\* the last tick found a single vehicle that had covered the last street of
\* its route, and removed it
ViajeCompletado ==
    /\ ultimo.op = "tick"
    /\ Len(ultimo.antes) = 1
    /\ ultimo.antes[1].indice_ruta + 1 = Len(ultimo.antes[1].ruta)
    /\ progreso_completo(ultimo.antes[1])
    /\ vehiculos = <<>>

\* C22: with one vehicle on one straight street, no lights, no other vehicle
\* and ticks issued for ever, eventually a tick finds the vehicle at the end
\* of its route and removes it from the active list: it stays neither
\* standing nor short of the end for ever.
C22_ViajeTermina == (Len(vehiculos) = 1) ~> ViajeCompletado

\* a COMBI that was moving at the end of the street has been removed, after
\* the ticks in which it could draw a passenger stop
C22_Witness ==
    /\ ViajeCompletado
    /\ ultimo.antes[1].tipo = "COMBI"
    /\ ultimo.antes[1].velocidad_actual > 0
    /\ ticks = MaxTicksViaje
    /\ estadisticas.vehiculos_activos = 0

\* the counter of generated vehicles grows by 1 in a step that admits a
\* vehicle and stays as it is in any other step
CuentaGenerados ==
    IF ultimo'.generado = "si"
    THEN vehiculos_generados' = vehiculos_generados + 1
    ELSE vehiculos_generados' = vehiculos_generados

TickTerminado == ultimo'.op = "tick" /\ error' = ""

\* vehiculos'[i] is the vehicle vehiculos[j], and the tick found and left it
\* on the first street of its route
SigueEnSuCalle(i, j) ==
    /\ vehiculos'[i].oid = vehiculos[j].oid
    /\ vehiculos[j].indice_ruta = 0
    /\ vehiculos'[i].indice_ruta = 0

Duraciones(s) == << s.duracion_verde, s.duracion_amarillo, s.duracion_rojo >>

\* C26: a tick of a light (Semaforo.actualizar) before the stored deadline
\* changes nothing of the light (state, deadline, durations, change counter);
\* a tick at or after the deadline sets the deadline to the time of the tick
\* plus the stored duration of the state just entered, and leaves the
\* durations as they were.
C26_TickDelSemaforo ==
    [][ ultimo'.op = "Semaforo.actualizar" =>
          \A i \in 1..Len(semaforos) :
             IF now < semaforos[i].tiempo_cambio
             THEN semaforos'[i] = semaforos[i]
             ELSE /\ semaforos'[i].tiempo_cambio =
                       now + (CASE semaforos'[i].estado = "VERDE"
                                     -> semaforos[i].duracion_verde
                                [] semaforos'[i].estado = "AMARILLO"
                                     -> semaforos[i].duracion_amarillo
                                [] semaforos'[i].estado = "ROJO"
                                     -> semaforos[i].duracion_rojo)
                  /\ Duraciones(semaforos'[i]) = Duraciones(semaforos[i])
      ]_vars

\* the first tick of a light after its first deadline came a second late: the
\* light is AMARILLO for 3 seconds from the tick
C26_Witness ==
    /\ fase = "prueba"
    /\ ultimo.op = "Semaforo.actualizar"
    /\ teclas = 0
    /\ now = 6
    /\ semaforos[1].console_logger
    /\ semaforos[1].cambios_estado = 1
    /\ semaforos[1].estado = "AMARILLO"
    /\ semaforos[1].tiempo_cambio = 9

-----------------------------------------------------------------------------
(* Properties of a vehicle along its route *)

\* the last step was an update of the vehicle followed along its route
ActualizoLaRuta ==
    fase = "prueba" /\ ultimo.op = "Vehiculo.actualizar"

\* C23: the distance travelled of a vehicle is the sum, over its updates so
\* far that returned True, of the speed it had after the speed integration of
\* that update: an update that returns True adds the current speed to
\* distancia_recorrida and an update that returns False adds nothing
C23_DistanciaEsSumaDeVelocidades ==
    /\ vehiculos[1].distancia_recorrida = ultimo.suma
    /\ ActualizoLaRuta =>
          vehiculos[1].distancia_recorrida =
              ultimo.antes.distancia_recorrida
                  + (IF ultimo.devuelve THEN vehiculos[1].velocidad_actual ELSE 0)

\* an update returned False after updates that had moved the vehicle at
\* different speeds along two streets
C23_Witness ==
    /\ ActualizoLaRuta
    /\ ~ultimo.devuelve
    /\ ultimo.suma > 2 * vehiculos[1].velocidad_actual
    /\ vehiculos[1].posicion.x > 0
    /\ vehiculos[1].posicion.y > 0

\* the last update notified a change of street
CambioDeViaEmitido ==
    \E k \in 1..Len(eventos) : eventos[k].evento = "CAMBIO DE VIA (...)"

\* the last update advanced the cursor onto a segment of the route
AvanzoASegmento ==
    /\ vehiculos[1].indice_ruta = ultimo.antes.indice_ruta + 1
    /\ vehiculos[1].indice_ruta < Len(vehiculos[1].ruta)

\* the time of the notification of a change of street before the last update,
\* or of the creation of the vehicle if there was none
AvisoAnterior ==
    LET previos == IF CambioDeViaEmitido
                   THEN SubSeq(ultimo.avisos, 1, Len(ultimo.avisos) - 1)
                   ELSE ultimo.avisos
    IN  IF previos = <<>> THEN vehiculos[1].tiempo_creacion
        ELSE previos[Len(previos)]

\* C29: any two notifications CAMBIO DE VIA of a vehicle are more than 5
\* seconds apart; one is made only in an update in which the cursor advanced
\* onto a segment that exists; an advance of the cursor within 5 seconds of
\* the creation of the vehicle or of its previous such notification notifies
\* nothing
C29_CambioDeViaEspaciado ==
    /\ \A k \in 1..Len(ultimo.avisos) :
          /\ ultimo.avisos[k] - vehiculos[1].tiempo_creacion > 5
          /\ k > 1 => ultimo.avisos[k] - ultimo.avisos[k - 1] > 5
    /\ ActualizoLaRuta =>
          /\ CambioDeViaEmitido => AvanzoASegmento
          /\ (AvanzoASegmento /\ now - AvisoAnterior <= 5) => ~CambioDeViaEmitido

\* the second notification of a vehicle, 6 seconds after its first one, when it
\* entered the fourth segment of its route; its entry into the third segment
\* in between had notified nothing
C29_Witness ==
    /\ ActualizoLaRuta
    /\ CambioDeViaEmitido
    /\ Len(ultimo.avisos) = 2
    /\ ultimo.avisos[2] - ultimo.avisos[1] = 6
    /\ vehiculos[1].indice_ruta = 3

-----------------------------------------------------------------------------
(* Properties of the vehicle ahead, of the notifications of speed and of    *)
(* the passenger stops                                                      *)

\* the bearing from the vehicle a to q is less than 45 degrees off its
\* heading: the cosine of the angle between them exceeds 1/sqrt 2.  The
\* bearing of a point seen from itself is 0 (math.atan2(0, 0)).
EnElCono(a, q) ==
    IF a.posicion = q THEN Rumbo(a.calle_actual) = [x |-> 1, y |-> 0]
    ELSE /\ Escalar(a.calle_actual, a.posicion, q) > 0
         /\ 2 * Escalar(a.calle_actual, a.posicion, q)
              * Escalar(a.calle_actual, a.posicion, q)
                > Distancia2(a.posicion, q)

\* the indices of the vehicles other than vehiculos[1] that were within 45
\* degrees of its heading when it was last updated
OtrosEnElCono ==
    { k \in 2..Len(vehiculos) : EnElCono(ultimo.antes, vehiculos[k].posicion) }

\* C27: the vehicle found ahead is never the vehicle itself, its bearing is
\* less than pi/4 off the heading and no other vehicle within that cone is
\* nearer; it is the one that limits the target speed.  With no other
\* vehicle in the cone none is found, and nothing but lights and passenger
\* stops keeps the target below the maximal speed.
C27_VehiculoMasCercanoAdelante ==
    ActualizoEnRuta =>
        /\ ultimo.adelante # 0 =>
              /\ ultimo.adelante # 1
              /\ vehiculos[ultimo.adelante].oid # ultimo.antes.oid
              /\ ultimo.adelante \in OtrosEnElCono
              /\ \A k \in OtrosEnElCono :
                    Distancia2(ultimo.antes.posicion,
                               vehiculos[ultimo.adelante].posicion)
                        <= Distancia2(ultimo.antes.posicion,
                                      vehiculos[k].posicion)
              /\ Distancia2(ultimo.antes.posicion,
                            vehiculos[ultimo.adelante].posicion)
                      < (40 * U) * (40 * U)
                  => 2 * vehiculos[1].velocidad_objetivo
                         <= vehiculos[ultimo.adelante].velocidad_actual
        /\ OtrosEnElCono # {} => ultimo.adelante # 0
        /\ OtrosEnElCono = {} =>
              /\ ultimo.adelante = 0
              /\ (semaforos = <<>> /\ ultimo.arg = 0
                      /\ ultimo.antes.tiempo_parada = 0)
                  => vehiculos[1].velocidad_objetivo
                         = ultimo.antes.velocidad_maxima

\* of two vehicles within 45 degrees of the heading the second of the list,
\* off the line of the heading, was the nearer one and stopped the vehicle,
\* while the first one was moving
C27_Witness ==
    /\ ActualizoEnRuta
    /\ Len(vehiculos) = 3
    /\ OtrosEnElCono = {2, 3}
    /\ ultimo.adelante = 3
    /\ Distancia2(ultimo.antes.posicion, vehiculos[3].posicion)
          < Distancia2(ultimo.antes.posicion, vehiculos[2].posicion)
    /\ Escalar(ultimo.antes.calle_actual, ultimo.antes.posicion,
               vehiculos[3].posicion)
         * Escalar(ultimo.antes.calle_actual, ultimo.antes.posicion,
                   vehiculos[3].posicion)
          < Distancia2(ultimo.antes.posicion, vehiculos[3].posicion)
    /\ vehiculos[2].velocidad_actual > 0
    /\ semaforos = <<>>
    /\ vehiculos[1].velocidad_objetivo = 0

\* the last update notified a speed event
AvisoDeVelocidad ==
    \E k \in 1..Len(eventos) :
        eventos[k].evento \in {"DETENIDO (...)", "FRENANDO (...)", "ACELERANDO (...)"}

\* the speed of the vehicle changed by more than 1.0 in the last update
CambioMayorQueUno ==
    Abs(vehiculos[1].velocidad_actual - ultimo.antes.velocidad_actual) > U

\* C28: an update notifies a speed event (DETENIDO, FRENANDO, ACELERANDO)
\* exactly if the speed changed by more than 1.0 in it and the count of such
\* changes, which grows by one in exactly those updates, has then become a
\* multiple of 5; no other update notifies one
C28_AvisoCadaCincoCambios ==
    (fase = "prueba" /\ ultimo.op = "Vehiculo.actualizar") =>
        /\ vehiculos[1].cambios_velocidad =
              ultimo.antes.cambios_velocidad
                  + (IF CambioMayorQueUno THEN 1 ELSE 0)
        /\ AvisoDeVelocidad <=>
              (CambioMayorQueUno /\ vehiculos[1].cambios_velocidad % 5 = 0)

\* a moving vehicle braked for a light in its second update, by less than
\* 1.0, and no speed event was notified
C28_Witness ==
    /\ ActualizoEnRuta
    /\ ticks = 2
    /\ ultimo.devuelve
    /\ vehiculos[1].velocidad_objetivo = 0
    /\ vehiculos[1].velocidad_actual = ultimo.antes.velocidad_actual - 15
    /\ vehiculos[1].velocidad_actual > 0
    /\ semaforos # <<>>
    /\ ~AvisoDeVelocidad
    /\ vehiculos[1].cambios_velocidad = 0

\* the last tick of the journey updated the single vehicle and kept it
SobrevivioAlTick ==
    /\ ultimo.op = "tick"
    /\ Len(ultimo.antes) = 1
    /\ Len(vehiculos) = 1

\* the stop counter the vehicle of the journey had in the last tick when
\* _aplicar_comportamiento_especial tested it: the time drawn, if its kind
\* makes stops and a stop was drawn, else the counter it came with
ContadorDeParada ==
    IF ultimo.antes[1].tipo = "COMBI" /\ ultimo.paradas[1] > 0
    THEN ultimo.paradas[1]
    ELSE ultimo.antes[1].tiempo_parada

\* what holds of the passenger stops after every tick of the journey
ParadaCorrecta ==
    /\ \A i \in 1..Len(vehiculos) :
          vehiculos[i].tiempo_parada > 0 => vehiculos[i].tipo = "COMBI"
    /\ (\E k \in 1..Len(eventos) : eventos[k].evento = "PARADA DE PASAJEROS (...)")
          => /\ ultimo.op = "tick"
             /\ ultimo.antes[1].tipo = "COMBI"
    /\ SobrevivioAlTick =>
          IF ContadorDeParada > 0
          THEN /\ vehiculos[1].velocidad_objetivo = 0
               /\ vehiculos[1].velocidad_maxima > 0
               /\ vehiculos[1].tiempo_parada = ContadorDeParada - 1
          ELSE vehiculos[1].tiempo_parada = ultimo.antes[1].tiempo_parada

\* the single vehicle of the journey is in a passenger stop
EnParada ==
    Len(vehiculos) = 1 /\ vehiculos[1].tiempo_parada > 0

\* C30: only a COMBI ever has a positive stop counter; in every update that
\* finds the counter positive, or draws a stop, the target speed is 0,
\* whatever it would be otherwise, and the counter goes down by exactly 1;
\* and once no new stop is drawn any more the stop ends after finitely many
\* ticks: the counter is no longer positive, or the vehicle has been removed.
C30_ParadaDePasajeros ==
    /\ []ParadaCorrecta
    /\ EnParada ~> ~EnParada

\* the tick in which the stop of a COMBI ended: it came with the counter at 1,
\* standing, and the counter is 0
C30_Witness ==
    /\ SobrevivioAlTick
    /\ ultimo.antes[1].tipo = "COMBI"
    /\ ultimo.antes[1].tiempo_parada = 1
    /\ ultimo.paradas[1] = 0
    /\ vehiculos[1].tiempo_parada = 0
    /\ vehiculos[1].velocidad_objetivo = 0
    /\ vehiculos[1].velocidad_actual = 0

-----------------------------------------------------------------------------
(* Properties of the routes *)

\* the end of street a is less than 50 units from the start or the end of
\* street b
Conectada(a, b) ==
    \/ Distancia2(calles[a].fin, calles[b].inicio) < (50 * U) * (50 * U)
    \/ Distancia2(calles[a].fin, calles[b].fin) < (50 * U) * (50 * U)

\* C31: a route made by the walk starts with the street it was asked for and
\* has between 1 and 8 streets, one more at most than iterations drawn; each
\* street of it differs from the one before and starts or ends less than 50
\* units from the end of the one before.  Where no street is connected the
\* walk adds nothing and still returns: from a street that leads nowhere the
\* route is that street alone, and a route shorter than the draw ends in a
\* street that leads nowhere.
C31_RutaConectada ==
    ultimo.op = "_generar_ruta_realista" =>
        /\ Len(ultimo.ruta) >= 1
        /\ Len(ultimo.ruta) <= 8
        /\ Len(ultimo.ruta) <= ultimo.largo + 1
        /\ ultimo.ruta[1] = ultimo.arg
        /\ \A k \in 1..(Len(ultimo.ruta) - 1) :
              /\ ultimo.ruta[k + 1] # ultimo.ruta[k]
              /\ calles[ultimo.ruta[k + 1]] # calles[ultimo.ruta[k]]
              /\ Conectada(ultimo.ruta[k], ultimo.ruta[k + 1])
        /\ Len(ultimo.ruta) < ultimo.largo + 1 =>
              \A b \in 1..Len(calles) :
                  b # ultimo.ruta[Len(ultimo.ruta)]
                      => ~Conectada(ultimo.ruta[Len(ultimo.ruta)], b)
        /\ error = ""

\* a walk of seven iterations from the first avenue that took the street 30
\* units away, which leads nowhere: the route has these two streets
C31_Witness ==
    /\ ultimo.op = "_generar_ruta_realista"
    /\ ultimo.largo = 7
    /\ ultimo.ruta = <<1, 3>>

-----------------------------------------------------------------------------
(* Properties of the counters and of the vehicles of the main loop *)

\* the largest size the list of vehicles has during a step: a vehicle
\* admitted in the step joins the list before any vehicle is removed
MayorTamanoDelPaso ==
    Len(vehiculos) + (IF ultimo'.generado = "si" THEN 1 ELSE 0)

\* C32: max_vehiculos_simultaneos is at least the number of active vehicles
\* in every state, never decreases, and is the largest size the list of
\* vehicles has had since construction: it starts at the size of the empty
\* list and every step leaves it at the larger of its old value and the
\* largest size of the list during the step
C32_MaximoSimultaneo ==
    /\ max_vehiculos_simultaneos = Len(vehiculos)
    /\ [](max_vehiculos_simultaneos >= Len(vehiculos))
    /\ [][ /\ max_vehiculos_simultaneos' >= max_vehiculos_simultaneos
           /\ max_vehiculos_simultaneos'
                 = Max(max_vehiculos_simultaneos, MayorTamanoDelPaso) ]_vars

\* two vehicles have been on the map together, a tick has removed one of
\* them and the mark is still 2
C32_Witness ==
    /\ ultimo.op = "tick"
    /\ error = ""
    /\ max_vehiculos_simultaneos = 2
    /\ Len(vehiculos) = 1
    /\ vehiculos_generados = 2

\* the vehicle v has covered the last street of its route: its next update
\* returns False
TerminaSuRuta(v) ==
    v.indice_ruta + 1 >= Len(v.ruta) /\ progreso_completo(v)

\* the object identities of the vehicles of a list
Identidades(lista) == { lista[i].oid : i \in 1..Len(lista) }

\* C33: between operations every active vehicle has a route that is not empty
\* and a cursor below its length.  In a step, a vehicle that stays has its
\* route unchanged and its cursor where it was or one further; a tick drops
\* the vehicles that had covered their last street and keeps the others; and
\* a vehicle that joins the list is a new one, so that a vehicle once removed
\* is never in the list, and never updated, again.
C33_CursorDeRuta ==
    /\ [](\A i \in 1..Len(vehiculos) :
             /\ vehiculos[i].ruta # <<>>
             /\ vehiculos[i].indice_ruta >= 0
             /\ vehiculos[i].indice_ruta < Len(vehiculos[i].ruta)
             /\ vehiculos[i].oid < sig_oid)
    /\ [][ /\ \A i \in 1..Len(vehiculos) :
               /\ \A j \in 1..Len(vehiculos') :
                     vehiculos'[j].oid = vehiculos[i].oid =>
                         /\ vehiculos'[j].ruta = vehiculos[i].ruta
                         /\ vehiculos'[j].indice_ruta
                               \in {vehiculos[i].indice_ruta,
                                    vehiculos[i].indice_ruta + 1}
               /\ (ultimo'.op = "tick" /\ error' = ""
                      /\ TerminaSuRuta(vehiculos[i]))
                   => vehiculos[i].oid \notin Identidades(vehiculos')
               /\ (ultimo'.op = "tick" /\ ~TerminaSuRuta(vehiculos[i]))
                   => vehiculos[i].oid \in Identidades(vehiculos')
           /\ Identidades(vehiculos') \subseteq
                 Identidades(vehiculos) \cup {sig_oid}
           /\ sig_oid' >= sig_oid ]_vars

\* a tick has removed a vehicle that had reached the end of the last street
\* of its route, and kept another one, which is past the first street of its
\* route
C33_Witness ==
    /\ ultimo.op = "tick"
    /\ error = ""
    /\ sig_oid = 3
    /\ Len(vehiculos) = 1
    /\ vehiculos[1].indice_ruta > 0

\* C34: every vehicle has, in every state, a speed and a target speed that
\* are at least 0 and at most its maximal speed, and an update leaves the
\* maximal speed as it was, whatever the lights, the other vehicles and the
\* passenger stops
C34_VelocidadAcotada ==
    /\ \A i \in 1..Len(vehiculos) :
          /\ 0 <= vehiculos[i].velocidad_actual
          /\ vehiculos[i].velocidad_actual <= vehiculos[i].velocidad_maxima
          /\ 0 <= vehiculos[i].velocidad_objetivo
          /\ vehiculos[i].velocidad_objetivo <= vehiculos[i].velocidad_maxima
    /\ (fase = "prueba" /\ ultimo.op = "Vehiculo.actualizar") =>
          vehiculos[1].velocidad_maxima = ultimo.antes.velocidad_maxima

\* a vehicle just below its maximal speed, with a vehicle ahead too far to
\* limit it, whose update stopped the acceleration at the maximal speed
C34_Witness ==
    /\ ActualizoEnRuta
    /\ ultimo.devuelve
    /\ Len(vehiculos) = 2
    /\ ultimo.antes.velocidad_actual < ultimo.antes.velocidad_maxima
    /\ ultimo.antes.velocidad_actual + (8 * ultimo.antes.agresividad) \div 100
          > ultimo.antes.velocidad_maxima
    /\ vehiculos[1].velocidad_actual = vehiculos[1].velocidad_maxima

\* the number of active vehicles of a kind
ActivosDelTipo(tipo) ==
    Cardinality({ i \in 1..Len(vehiculos) : vehiculos[i].tipo = tipo })

\* C35: after every operation of the driver each counter of a kind (autos,
\* combis, motos, taxis) is the number of active vehicles of that kind, so
\* that none is negative and their sum is the size of the list of vehicles
C35_ContadoresPorTipo ==
    /\ estadisticas.autos = ActivosDelTipo("AUTO")
    /\ estadisticas.combis = ActivosDelTipo("COMBI")
    /\ estadisticas.motos = ActivosDelTipo("MOTO")
    /\ estadisticas.taxis = ActivosDelTipo("TAXI")
    /\ estadisticas.autos >= 0 /\ estadisticas.combis >= 0
    /\ estadisticas.motos >= 0 /\ estadisticas.taxis >= 0
    /\ estadisticas.autos + estadisticas.combis + estadisticas.motos
          + estadisticas.taxis = Len(vehiculos)

\* vehicles of two kinds have been admitted and a tick has removed the first
\* one: the counter of its kind is back at 0 and the other one is 1
C35_Witness ==
    /\ ultimo.op = "tick"
    /\ error = ""
    /\ vehiculos_generados = 2
    /\ Len(vehiculos) = 1
    /\ vehiculos[1].oid = 2
    /\ vehiculos[1].tipo = "COMBI"
    /\ estadisticas.combis = 1
    /\ estadisticas.autos = 0

\* C36: in one update the speed of a vehicle changes by at most 0.15: upward
\* by at most 0.08 times its aggressiveness, which is at most 1, and downward
\* by at most 0.15.  So no update changes it by more than 1.0, and
\* cambios_velocidad is 0 for the whole life of the vehicle.
C36_CambioDeVelocidadPequeno ==
    /\ \A i \in 1..Len(vehiculos) :
          /\ vehiculos[i].cambios_velocidad = 0
          /\ vehiculos[i].agresividad <= 100
    /\ SobrevivioAlTick =>
          /\ vehiculos[1].velocidad_actual - ultimo.antes[1].velocidad_actual
                <= (8 * vehiculos[1].agresividad) \div 100
          /\ vehiculos[1].velocidad_actual - ultimo.antes[1].velocidad_actual
                <= 8
          /\ ultimo.antes[1].velocidad_actual - vehiculos[1].velocidad_actual
                <= 15
          /\ Abs(vehiculos[1].velocidad_actual
                    - ultimo.antes[1].velocidad_actual) <= U

\* a COMBI that had drawn a passenger stop while moving faster than 0.15 has
\* braked by 0.15 in the last tick and its count of changes is 0
C36_Witness ==
    /\ SobrevivioAlTick
    /\ vehiculos[1].tipo = "COMBI"
    /\ vehiculos[1].tiempo_parada > 0
    /\ ultimo.antes[1].velocidad_actual - vehiculos[1].velocidad_actual = 15
    /\ vehiculos[1].velocidad_actual > 0
    /\ vehiculos[1].cambios_velocidad = 0

-----------------------------------------------------------------------------
(* Properties of the simulation without a narrator *)

\* C39: with narrador_activo false (no narrator and no console logger), an
\* admitted spawn creates the vehicle, appends it and increments the counters
\* without raising an error, and the ticks that follow raise none either.
C39_GeneracionSinNarrador ==
    (~config.narrador_activo /\ ultimo.op \in {"tick", "evento"}) =>
        /\ ultimo.generado # "error"
        /\ error = ""
        /\ ultimo.generado = "si" =>
              /\ vehiculos # <<>>
              /\ vehiculos_generados >= 1

\* a tick of a simulation without a narrator has passed the three tests of
\* the spawn, raised AttributeError while constructing the vehicle and left
\* the main loop; no vehicle was appended and no counter moved
C39_Witness ==
    /\ ~config.narrador_activo
    /\ console_logger = Ninguno
    /\ ultimo.op = "tick"
    /\ ultimo.generado = "error"
    /\ error = "AttributeError"
    /\ fase = "terminado"
    /\ vehiculos = <<>>
    /\ vehiculos_generados = 0
    /\ estadisticas.vehiculos_generados = 0

-----------------------------------------------------------------------------
(* Properties of the remaining time of a light *)

\* C40: for every light, in every reachable state, porcentaje_tiempo_restante
\* is between 0 and 100 inclusive and tiempo_restante is at least 0, also
\* right after construction and right after forzar_estado with a duration.
C40_PorcentajeRestanteAcotado ==
    \A i \in 1..Len(semaforos) :
        /\ tiempo_restante(semaforos[i], now) >= 0
        /\ porcentaje_tiempo_restante(semaforos[i], now) >= 0
        /\ porcentaje_tiempo_restante(semaforos[i], now) <= 100

\* a normal light right after construction: its green phase was drawn as 5
\* seconds and its first deadline as 12 seconds, so 240 percent remain
C40_Witness ==
    /\ ultimo.op = "Semaforo"
    /\ now = 0
    /\ semaforos[1].estado = "VERDE"
    /\ semaforos[1].duracion_verde = 5
    /\ tiempo_restante(semaforos[1], now) = 12
    /\ porcentaje_tiempo_restante(semaforos[1], now) = 240

-----------------------------------------------------------------------------
(* Properties of the lights that are ticked for ever *)

\* C37: if the lights keep being ticked and time keeps advancing, with no
\* forzar_estado, every light changes state infinitely often: from every
\* reachable state each light is VERDE again later, and none stays ROJO or
\* AMARILLO (or VERDE) for ever.
C37_CadaSemaforoVuelveAVerde ==
    \A i \in {1, 2} :
        /\ []<>(semaforos[i].estado = "VERDE")
        /\ []<>(semaforos[i].estado = "AMARILLO")
        /\ []<>(semaforos[i].estado = "ROJO")

\* the loop over the lights has found the first light ROJO past its deadline
\* and left it VERDE for duracion_verde, the second light being ROJO
C37_Witness ==
    /\ ultimo.op = "Semaforo.actualizar"
    /\ Len(ultimo.antes) = 2
    /\ ultimo.antes[1].estado = "ROJO"
    /\ semaforos[1].estado = "VERDE"
    /\ semaforos[1].tiempo_cambio = now + semaforos[1].duracion_verde
    /\ semaforos[2].estado = "ROJO"

-----------------------------------------------------------------------------
(* Properties of the encounter of two vehicles *)

\* the vehicle created as the k-th is in the active list
Activo(k) == \E i \in 1..Len(vehiculos) : vehiculos[i].oid = k

\* vehicle i of the list stands, has no speed to aim at and finds the other
\* vehicle ahead
Bloqueado(i) ==
    /\ vehiculos[i].velocidad_actual = 0
    /\ vehiculos[i].velocidad_objetivo = 0
    /\ encontrar_vehiculo_adelante(vehiculos[i], vehiculos) # 0

\* C38: with several vehicles and the main loop iterating for ever, every
\* vehicle admitted to the active list is removed later; no configuration of
\* vehicles keeps one of them at speed 0 with target 0 for ever.
C38_TodoVehiculoSale ==
    \A k \in 1..MaxGenerados : Activo(k) ~> ~Activo(k)

\* a tick has found two vehicles that head towards each other, each within
\* 60 units of the other and in the other's forward cone, both standing
\* with target 0, and has left them exactly as they were
C38_Witness ==
    /\ ultimo.op = "tick"
    /\ Len(vehiculos) = 2
    /\ ultimo.antes = vehiculos
    /\ Bloqueado(1) /\ Bloqueado(2)
    /\ vehiculos[1].direccion # vehiculos[2].direccion
    /\ vehiculos[1].tiempo_parada = 0 /\ vehiculos[2].tiempo_parada = 0

====
